---- MODULE Spec2Model ----
(***************************************************************************)
(* Model of the DSP tutorial suite: complex arithmetic (dsp_utils.c), the  *)
(* Goertzel family and the sliding DFT (advanced_fft.c), and the           *)
(* overlap-add / overlap-save streaming convolvers (streaming.c).          *)
(*                                                                         *)
(* Numbers.  The C code computes in double.  The model computes in exact   *)
(* arithmetic: a real number is an element of the field Q(sqrt2, sqrt3)    *)
(* with a power-of-two denominator,                                        *)
(*      <<a, b, c, d, e>>  =  (a + b*sqrt2 + c*sqrt3 + d*sqrt6) / 2^e,     *)
(* kept in lowest terms.  This field holds cos and sin of every multiple   *)
(* of 15 degrees, so every angle 2*pi*k/n with n a divisor of 24 (n = 1,   *)
(* 2, 3, 4, 6, 8, 12, 24) is represented exactly, together with all sums,  *)
(* products and divisions by powers of two that the code forms from them.  *)
(***************************************************************************)
EXTENDS Integers, Sequences, FiniteSets, TLC

VARIABLES
    pc,     \* which component the run exercises
    gz,     \* a goertzel / goertzel_magnitude_sq call: its arguments and results
    hfir,   \* the caller's FIR taps h[0..M-1]
    xs,     \* the input stream fed so far, block after block
    ys,     \* the output blocks returned so far, concatenated
    ola,    \* the OlaState
    ols,    \* the OlsState
    cx,     \* a complex buffer handed to fft and ifft, with its first contents
    sd,     \* the SlidingDFT
    fed,    \* the samples fed to sliding_dft_update so far
    sdret,  \* the value the last sliding_dft_update returned
    tone,   \* the sinusoid fed to the tracker: amplitude and phase
    life,   \* the init / release calls made on a state struct and their outcome
    blk,    \* the caller's input block as it is after the last process call
    heap,   \* allocated memory: the block stored at each address
    inst,   \* two state instances living side by side in the heap
    call    \* a call of a pure library function: its arguments and its result

vars == <<pc, gz, hfir, xs, ys, ola, ols, cx, sd, fed, sdret, tone, life,
          blk, heap, inst, call>>

(***************************************************************************)
(* Bounds of the model.                                                    *)
(***************************************************************************)
\* longest signal handed to goertzel / goertzel_magnitude_sq
MaxGoertzelLen == 6
\* largest block size L and filter length M of a streaming convolver
MaxBlock == 3
MaxTaps == 3
\* longest stream fed to a streaming convolver, in samples
MaxStream == 6
\* log2 of the longest buffer handed to fft / ifft
MaxFftLog == 3
\* largest window N of a sliding DFT fed arbitrary samples, and the number of
\* samples fed to it
MaxWindow == 6
MaxUpdates == 7
\* largest window of a sliding DFT fed a sinusoid, its largest amplitude, and
\* the number of samples fed beyond the first window
MaxToneWindow == 8
MaxAmp == 2
MaxToneExtra == 4
\* largest length argument of an init call in the init / release runs
MaxLifeLen == 2

\* release calls made in a row on one struct
MaxLifeFrees == 3

\* process calls made between init and release
MaxLifeSteps == 2

(***************************************************************************)
(* Exact real arithmetic standing for the C type double.                   *)
(***************************************************************************)
RECURSIVE RNorm(_)
RNorm(x) ==
    IF x[5] > 0 /\ x[1] % 2 = 0 /\ x[2] % 2 = 0 /\ x[3] % 2 = 0 /\ x[4] % 2 = 0
    THEN LET y == <<x[1] \div 2, x[2] \div 2, x[3] \div 2, x[4] \div 2, x[5] - 1>>
         IN  IF y = y THEN RNorm(y) ELSE y
    ELSE x

RECURSIVE Pow2(_)
Pow2(e) == IF e = 0 THEN 1 ELSE 2 * Pow2(e - 1)

RInt(n) == <<n, 0, 0, 0, 0>>

RZero == RInt(0)

\* x + y  (here and in RMul the test x = x /\ y = y makes TLC compute the
\* operands once, before their components are read)
RAdd(x, y) ==
    LET e == IF x[5] > y[5] THEN x[5] ELSE y[5]
        p == Pow2(e - x[5])
        q == Pow2(e - y[5])
    IN  IF x = x /\ y = y
        THEN RNorm(<<p * x[1] + q * y[1], p * x[2] + q * y[2],
                     p * x[3] + q * y[3], p * x[4] + q * y[4], e>>)
        ELSE x

\* -x
RNeg(x) == <<-x[1], -x[2], -x[3], -x[4], x[5]>>

\* x - y
RSub(x, y) == RAdd(x, RNeg(y))

\* x * y, with sqrt2^2 = 2, sqrt3^2 = 3, sqrt2*sqrt3 = sqrt6
RMul(x, y) ==
    IF x = x /\ y = y
    THEN RNorm(<<x[1] * y[1] + 2 * x[2] * y[2] + 3 * x[3] * y[3] + 6 * x[4] * y[4],
            x[1] * y[2] + x[2] * y[1] + 3 * (x[3] * y[4] + x[4] * y[3]),
            x[1] * y[3] + x[3] * y[1] + 2 * (x[2] * y[4] + x[4] * y[2]),
            x[1] * y[4] + x[4] * y[1] + x[2] * y[3] + x[3] * y[2],
            x[5] + y[5]>>)
    ELSE x

RECURSIVE Log2(_)
Log2(n) == IF n <= 1 THEN 0 ELSE 1 + Log2(n \div 2)

\* x / n for n a power of two
RDivPow2(x, n) == RNorm(<<x[1], x[2], x[3], x[4], x[5] + Log2(n)>>)

\* whether p > m*sqrt2 for integers p >= 0, m >= 0 not both 0, by the
\* continued fraction of sqrt2: for m <= p < 2m, p/m > sqrt2 exactly when
\* (2m - p)/(p - m) < sqrt2, and the pair shrinks at every step
RECURSIVE AboveSqrt2(_, _)
AboveSqrt2(p, m) ==
    IF p < m THEN FALSE
    ELSE IF p >= 2 * m THEN TRUE
    ELSE LET p2 == 2 * m - p
             m2 == p - m
         IN  IF p2 = p2 /\ m2 = m2 THEN ~AboveSqrt2(p2, m2) ELSE FALSE

\* the sign (-1, 0, 1) of p + q*sqrt2 for integers p, q
SignZ2(p, q) ==
    IF p >= 0 /\ q >= 0 THEN (IF p = 0 /\ q = 0 THEN 0 ELSE 1)
    ELSE IF p <= 0 /\ q <= 0 THEN -1
    ELSE IF p > 0 THEN (IF AboveSqrt2(p, -q) THEN 1 ELSE -1)
    ELSE (IF AboveSqrt2(-p, q) THEN -1 ELSE 1)

RECURSIVE Gcd(_, _)
Gcd(a, b) ==
    IF b = 0 THEN a
    ELSE LET r == a % b IN IF r = r THEN Gcd(b, r) ELSE r

Abs(a) == IF a < 0 THEN -a ELSE a

\* the sign of x = (u + v*sqrt3) / 2^e with u = a + b*sqrt2, v = c + d*sqrt2:
\* where u and v differ in sign, the sign of u*u - 3*v*v decides.  The four
\* integers are first divided by their common divisor.
RSign(x) ==
    LET g == Gcd(Gcd(Abs(x[1]), Abs(x[2])), Gcd(Abs(x[3]), Abs(x[4])))
        a == IF g = 0 THEN 0 ELSE x[1] \div g
        b == IF g = 0 THEN 0 ELSE x[2] \div g
        c == IF g = 0 THEN 0 ELSE x[3] \div g
        d == IF g = 0 THEN 0 ELSE x[4] \div g
        su == SignZ2(a, b)
        sv == SignZ2(c, d)
        w1 == a * a + 2 * b * b - 3 * c * c - 6 * d * d
        w2 == 2 * a * b - 6 * c * d
    IN  IF sv = 0 \/ su = sv THEN su
        ELSE IF su = 0 THEN sv
        ELSE IF SignZ2(w1, w2) > 0 THEN su ELSE sv

\* x < y
RLess(x, y) == RSign(RSub(x, y)) < 0

(***************************************************************************)
(* cos and sin of the angle 2*pi*k/n (math.h), for n a divisor of 24.      *)
(* Angles are counted in steps of 15 degrees, 24 steps to the turn.        *)
(***************************************************************************)
AngleOK(n) == n >= 1 /\ 24 % n = 0

\* the angle omega = 2*pi*k/n in steps of 15 degrees
Omega(k, n) == (k * (24 \div n)) % 24

RECURSIVE CosStep(_)
CosStep(a) ==
    CASE a = 0 -> RInt(1)
      [] a = 1 -> <<0, 1, 0, 1, 2>>
      [] a = 2 -> <<0, 0, 1, 0, 1>>
      [] a = 3 -> <<0, 1, 0, 0, 1>>
      [] a = 4 -> <<1, 0, 0, 0, 1>>
      [] a = 5 -> <<0, -1, 0, 1, 2>>
      [] a = 6 -> RZero
      [] a > 6 /\ a <= 12 -> RNeg(CosStep(12 - a))
      [] OTHER -> CosStep(24 - a)

SinStep(a) == CosStep((a + 18) % 24)

(***************************************************************************)
(* dsp_utils.c: the Complex type and its arithmetic.                       *)
(***************************************************************************)
Cplx(re, im) == [re |-> re, im |-> im]

CZero == Cplx(RZero, RZero)

\* (a.re + b.re) + j(a.im + b.im)
complex_add(a, b) == Cplx(RAdd(a.re, b.re), RAdd(a.im, b.im))

complex_sub_bug(a, b) == Cplx(RAdd(a.re, b.re), RAdd(a.im, b.im))

\* (a.re - b.re) + j(a.im - b.im)
complex_sub(a, b) == Cplx(RSub(a.re, b.re), RSub(a.im, b.im))

complex_mul_bug(a, b) ==
    Cplx(RAdd(RMul(a.re, b.re), RMul(a.im, b.im)),
         RAdd(RMul(a.re, b.im), RMul(a.im, b.re)))

\* (a.re*b.re - a.im*b.im) + j(a.re*b.im + a.im*b.re)
complex_mul(a, b) ==
    Cplx(RSub(RMul(a.re, b.re), RMul(a.im, b.im)),
         RAdd(RMul(a.re, b.im), RMul(a.im, b.re)))

(***************************************************************************)
(* fft.h: the radix-2 decimation-in-time transform.  A buffer of length N  *)
(* is a function on 0..N-1 of Complex values; N is a power of two.         *)
(***************************************************************************)
\* the index i of a buffer of 2^bits entries with its bits reversed
RECURSIVE BitReverse(_, _)
BitReverse(i, bits) ==
    IF bits = 0 THEN 0
    ELSE (i % 2) * Pow2(bits - 1) + BitReverse(i \div 2, bits - 1)

\* the samples permuted into bit-reversed order
bit_reverse_permute(x, N) == [i \in 0..(N - 1) |-> x[BitReverse(i, Log2(N))]]

\* the twiddle factor W_len^k = e^{-j*2*pi*k/len}, e^{+j*2*pi*k/len} when inverse
Twiddle(k, len, inverse) ==
    Cplx(CosStep(Omega(k, len)),
         IF inverse THEN SinStep(Omega(k, len)) ELSE RNeg(SinStep(Omega(k, len))))

\* one stage of butterflies over groups of len samples:
\* the pair (u, v) = (x[j], x[j + len/2]) of a group becomes (u + W*v, u - W*v)
butterfly_radix2(x, N, len, inverse) ==
    [i \in 0..(N - 1) |->
        LET half == len \div 2
            j == i % len
        IN  IF j < half
            THEN complex_add(x[i], complex_mul(Twiddle(j, len, inverse), x[i + half]))
            ELSE complex_sub(x[i - half],
                             complex_mul(Twiddle(j - half, len, inverse), x[i])) ]

\* the stages len = 2, 4, ..., N in turn
RECURSIVE Stages(_, _, _, _)
Stages(x, N, len, inverse) ==
    IF len > N THEN x
    ELSE LET y == butterfly_radix2(x, N, len, inverse)
         IN  IF y = y THEN Stages(y, N, 2 * len, inverse) ELSE y

\* forward transform, in place, no scaling
fft(x, N) == Stages(bit_reverse_permute(x, N), N, 2, FALSE)

\* inverse transform, in place, every output divided by N
ifft(x, N) ==
    LET y == Stages(bit_reverse_permute(x, N), N, 2, TRUE)
    IN  [i \in 0..(N - 1) |-> Cplx(RDivPow2(y[i].re, N), RDivPow2(y[i].im, N))]

(***************************************************************************)
(* Heap pointers.  A pointer field of a state struct is NULL, wild (never  *)
(* assigned: the struct is caller-allocated and not cleared), or live with *)
(* the contents of the block it points to (a function on 0..len-1).        *)
(***************************************************************************)
Null == [st |-> "null", mem |-> <<>>]

Wild == [st |-> "wild", mem |-> <<>>]

Live(mem) == [st |-> "live", mem |-> mem]

\* calloc(count, size): a zero-filled block, or NULL when the allocation fails
\* (ok = FALSE); a negative count converted to size_t overflows and fails.
\* calloc(0, size) may return either, so both values of ok are possible.
calloc(count, zero, ok) ==
    IF count < 0 \/ ~ok THEN Null ELSE Live([i \in 0..(count - 1) |-> zero])

\* free(p) of a pointer that is neither NULL nor live is undefined behaviour
BadFree(p) == p.st = "wild"

(***************************************************************************)
(* dsp_utils.c: next_power_of_2.                                           *)
(***************************************************************************)
RECURSIVE NextPow2Loop(_, _)
NextPow2Loop(p, n) == IF p < n THEN NextPow2Loop(2 * p, n) ELSE p

next_power_of_2(n) == NextPow2Loop(1, n)

(***************************************************************************)
(* streaming.c: overlap-add.                                               *)
(***************************************************************************)
\* an OlaState as the caller declares it, before ola_init
OlaFresh == [block_size |-> 0, fft_size |-> 0, filter_len |-> 0,
             H |-> Wild, Xbuf |-> Wild, tail |-> Wild, padded |-> Wild]

\* the zero-padded filter loaded into H: H[i] = h[i] + 0j for i < filter_len
\* (a tap index at or beyond fft_size would be written outside the block)
LoadFilter(h, filter_len, N) ==
    [i \in 0..(N - 1) |-> IF i < filter_len THEN Cplx(h[i], RZero) ELSE CZero]

\* ola_free that releases the buffers and keeps the pointers
ola_free_keep(s) == s

ola_free(s) == [s EXCEPT !.H = Null, !.Xbuf = Null, !.tail = Null, !.padded = Null]

\* the blocks a free(p) call releases: none when p is NULL
Released(s, fields) == SelectSeq(fields, LAMBDA f : s[f].st # "null")

\* the blocks ola_free(s) releases, in the order of its free calls
OlaReleased(s) == Released(s, <<"H", "Xbuf", "tail", "padded">>)

OlaFreeBad(s) == BadFree(s.H) \/ BadFree(s.Xbuf) \/ BadFree(s.tail) \/ BadFree(s.padded)

\* ola_init(s, h, filter_len, block_size) with the outcomes ok[1..4] of its four
\* calloc calls (H, Xbuf, tail, padded): the struct on return, the value
\* returned, and whether the call ran into undefined behaviour
ola_init(s, h, filter_len, block_size, ok) ==
    LET min_n == block_size + filter_len - 1
        N == next_power_of_2(min_n)
        s1 == [s EXCEPT !.filter_len = filter_len, !.block_size = block_size,
                        !.fft_size = N]
        H0 == calloc(N, CZero, ok[1])
    IN  IF H0.st = "null"
        THEN [s |-> [s1 EXCEPT !.H = H0], ret |-> -1, ub |-> FALSE]
        ELSE LET s2 == [s1 EXCEPT
                           !.H = Live(fft(LoadFilter(h, filter_len, N), N)),
                           !.Xbuf = calloc(N, CZero, ok[2]),
                           !.tail = calloc(N - block_size, RZero, ok[3]),
                           !.padded = calloc(N, RZero, ok[4])]
                 over == filter_len > N
             IN  IF s2.Xbuf.st = "null" \/ s2.tail.st = "null" \/ s2.padded.st = "null"
                 THEN [s |-> ola_free(s2), ret |-> -1, ub |-> over]
                 ELSE [s |-> s2, ret |-> 0, ub |-> over]

\* Y[k] = X[k] * H[k]
SpectrumMul(X, H, N) == [k \in 0..(N - 1) |-> complex_mul(X[k], H[k])]

\* a real buffer loaded into the complex scratch buffer, imaginary parts 0
LoadReal(buf, N) == [i \in 0..(N - 1) |-> Cplx(buf[i], RZero)]

\* the block zero-padded to N samples (memset, then memcpy of L samples)
ZeroPad(in, L, N) == [i \in 0..(N - 1) |-> IF i < L THEN in[i] ELSE RZero]

\* for (i = 0; i < tail_len; i++) s->tail[i] = s->Xbuf[L + i].re
OlaNewTail(tail, Y, L, tail_len) == [i \in 0..(tail_len - 1) |-> Y[L + i].re]

\* the output loop without the overlap from the previous block
OlaOutputNoTail(tail, Y, L, tail_len, g) == [i \in 0..(L - 1) |-> Y[i].re]

\* for (i = 0; i < L; i++) out[i] = s->Xbuf[i].re + s->tail[i]
\* tail holds tail_len doubles: a read at i >= tail_len is outside the block
\* and yields whatever lies there, g[i]
OlaOutput(tail, Y, L, tail_len, g) ==
    [i \in 0..(L - 1) |-> RAdd(Y[i].re, IF i < tail_len THEN tail[i] ELSE g[i])]

\* the indices i at which the output loop reads s->tail[i], and those at
\* which the save loop writes s->tail[i]
OlaTailReads(s) == 0..(s.block_size - 1)

OlaTailWrites(s) == 0..((s.fft_size - s.block_size) - 1)

\* the spectral product stored into the cached H instead of Xbuf
ola_process_inplace(s, in, g) ==
    LET N == s.fft_size
        L == s.block_size
        tail_len == N - L
        padded == ZeroPad(in, L, N)
        P == SpectrumMul(fft(LoadReal(padded, N), N), s.H.mem, N)
        Y == ifft(P, N)
    IN  [s |-> [s EXCEPT !.padded = Live(padded), !.Xbuf = Live(Y), !.H = Live(P),
                         !.tail = Live(OlaNewTail(s.tail.mem, Y, L, tail_len))],
         out |-> OlaOutput(s.tail.mem, Y, L, tail_len, g), in |-> in]

\* ola_process(s, in, out): the struct, the block out and the caller's
\* block in (read through a const pointer, never stored to) on return
ola_process(s, in, g) ==
    LET N == s.fft_size
        L == s.block_size
        tail_len == N - L
        padded == ZeroPad(in, L, N)
        Y == ifft(SpectrumMul(fft(LoadReal(padded, N), N), s.H.mem, N), N)
    IN  [s |-> [s EXCEPT !.padded = Live(padded), !.Xbuf = Live(Y),
                         !.tail = Live(OlaNewTail(s.tail.mem, Y, L, tail_len))],
         out |-> OlaOutput(s.tail.mem, Y, L, tail_len, g), in |-> in]

(***************************************************************************)
(* streaming.c: overlap-save.                                              *)
(***************************************************************************)
OlsFresh == [block_size |-> 0, fft_size |-> 0, filter_len |-> 0,
             H |-> Wild, Xbuf |-> Wild, input_buf |-> Wild]

ols_free(s) == [s EXCEPT !.H = Null, !.Xbuf = Null, !.input_buf = Null]

OlsFreeBad(s) == BadFree(s.H) \/ BadFree(s.Xbuf) \/ BadFree(s.input_buf)

OlsReleased(s) == Released(s, <<"H", "Xbuf", "input_buf">>)

\* ols_init whose input buffer is allocated without being zero-filled
ols_init_dirty(s, h, filter_len, block_size, ok) ==
    LET min_n == block_size + filter_len - 1
        N == next_power_of_2(min_n)
        s1 == [s EXCEPT !.filter_len = filter_len, !.block_size = block_size,
                        !.fft_size = N]
        H0 == calloc(N, CZero, ok[1])
    IN  IF H0.st = "null"
        THEN [s |-> [s1 EXCEPT !.H = H0], ret |-> -1, ub |-> FALSE]
        ELSE LET s2 == [s1 EXCEPT
                           !.H = Live(fft(LoadFilter(h, filter_len, N), N)),
                           !.Xbuf = calloc(N, CZero, ok[2]),
                           !.input_buf = calloc(N, RInt(5), ok[3])]
                 over == filter_len > N
             IN  IF s2.Xbuf.st = "null" \/ s2.input_buf.st = "null"
                 THEN [s |-> ols_free(s2), ret |-> -1, ub |-> over]
                 ELSE [s |-> s2, ret |-> 0, ub |-> over]

\* ols_init with the outcomes ok[1..3] of its calloc calls (H, Xbuf, input_buf)
ols_init(s, h, filter_len, block_size, ok) ==
    LET min_n == block_size + filter_len - 1
        N == next_power_of_2(min_n)
        s1 == [s EXCEPT !.filter_len = filter_len, !.block_size = block_size,
                        !.fft_size = N]
        H0 == calloc(N, CZero, ok[1])
    IN  IF H0.st = "null"
        THEN [s |-> [s1 EXCEPT !.H = H0], ret |-> -1, ub |-> FALSE]
        ELSE LET s2 == [s1 EXCEPT
                           !.H = Live(fft(LoadFilter(h, filter_len, N), N)),
                           !.Xbuf = calloc(N, CZero, ok[2]),
                           !.input_buf = calloc(N, RZero, ok[3])]
                 over == filter_len > N
             IN  IF s2.Xbuf.st = "null" \/ s2.input_buf.st = "null"
                 THEN [s |-> ols_free(s2), ret |-> -1, ub |-> over]
                 ELSE [s |-> s2, ret |-> 0, ub |-> over]

OlsShiftStale(buf, M, L, N) == buf

\* memmove(input_buf, input_buf + L, (M - 1) * sizeof(double))
OlsShift(buf, M, L, N) ==
    [i \in 0..(N - 1) |-> IF i < M - 1 THEN buf[i + L] ELSE buf[i]]

\* the block copied to the front of the buffer instead of behind the history
OlsAppendFront(buf, in, M, L, N) ==
    [i \in 0..(N - 1) |-> IF i < L THEN in[i] ELSE buf[i]]

\* memcpy(input_buf + (M - 1), in, L * sizeof(double))
OlsAppend(buf, in, M, L, N) ==
    [i \in 0..(N - 1) |-> IF i >= M - 1 /\ i < M - 1 + L THEN in[i - (M - 1)] ELSE buf[i]]

\* filled = M - 1 + L; if (filled < N) memset(input_buf + filled, 0, ...)
OlsZeroRest(buf, M, L, N) ==
    [i \in 0..(N - 1) |-> IF i >= M - 1 + L THEN RZero ELSE buf[i]]

\* the output taken from the start of the result, artefacts included
OlsOutputNoDiscard(Y, M, L) == [i \in 0..(L - 1) |-> Y[i].re]

\* for (i = 0; i < L; i++) out[i] = s->Xbuf[M - 1 + i].re
OlsOutput(Y, M, L) == [i \in 0..(L - 1) |-> Y[M - 1 + i].re]

\* ols_process(s, in, out): the struct, the block out and the caller's
\* block in (read through a const pointer, never stored to) on return
ols_process(s, in) ==
    LET N == s.fft_size
        M == s.filter_len
        L == s.block_size
        buf == OlsZeroRest(OlsAppend(OlsShift(s.input_buf.mem, M, L, N), in, M, L, N),
                           M, L, N)
        Y == ifft(SpectrumMul(fft(LoadReal(buf, N), N), s.H.mem, N), N)
    IN  [s |-> [s EXCEPT !.input_buf = Live(buf), !.Xbuf = Live(Y)],
         out |-> OlsOutput(Y, M, L), in |-> in]

(***************************************************************************)
(* advanced_fft.c: goertzel and goertzel_magnitude_sq.                     *)
(* A signal of length n is a function on 0..n-1.                           *)
(***************************************************************************)
\* the loop "for (i = 0; i < n; i++) { s0 = x[i] + coeff*s1 - s2; s2 = s1; s1 = s0; }"
\* started at index i with state s1, s2; yields <<s1, s2>> at loop exit.
\* (The test s0 = s0 makes TLC compute s0 once, when the iteration runs, as
\* the C loop does, instead of carrying it along as an unevaluated term.)
RECURSIVE GoertzelLoop(_, _, _, _, _, _)
GoertzelLoop(x, n, coeff, i, s1, s2) ==
    IF i < n
    THEN LET s0 == RSub(RAdd(x[i], RMul(coeff, s1)), s2)
         IN  IF s0 = s0 THEN GoertzelLoop(x, n, coeff, i + 1, s0, s1)
                        ELSE <<s0, s1>>
    ELSE <<s1, s2>>

GoertzelFinalBug(s, omega) ==
    Cplx(RSub(s[1], RMul(s[2], CosStep(omega))), RMul(s[2], SinStep(omega)))

\* the final step with the sign of the imaginary part turned
GoertzelFinalConj(s, omega) ==
    Cplx(RSub(RMul(s[1], CosStep(omega)), s[2]), RMul(RNeg(s[1]), SinStep(omega)))

\* result.re = s1*cos(omega) - s2;  result.im = s1*sin(omega)
GoertzelFinal(s, omega) ==
    Cplx(RSub(RMul(s[1], CosStep(omega)), s[2]), RMul(s[1], SinStep(omega)))

goertzel(x, n, k) ==
    LET omega == Omega(k, n)
        coeff == RMul(RInt(2), CosStep(omega))
    IN  GoertzelFinal(GoertzelLoop(x, n, coeff, 0, RZero, RZero), omega)

MagSqFinalBug(s, coeff) ==
    RSub(RAdd(RMul(s[1], s[1]), RMul(s[2], s[2])), RMul(s[1], s[2]))

\* return s1*s1 + s2*s2 - coeff*s1*s2
MagSqFinal(s, coeff) ==
    RSub(RAdd(RMul(s[1], s[1]), RMul(s[2], s[2])), RMul(RMul(coeff, s[1]), s[2]))

goertzel_magnitude_sq(x, n, k) ==
    LET omega == Omega(k, n)
        coeff == RMul(RInt(2), CosStep(omega))
    IN  MagSqFinal(GoertzelLoop(x, n, coeff, 0, RZero, RZero), coeff)

(***************************************************************************)
(* advanced_fft.c: goertzel_freq and dtmf_detect.                          *)
(* The sampling rate fs is one for which the angle 2*pi*freq_hz/fs of      *)
(* every frequency is a whole number of 15-degree steps (fs divides 24).   *)
(***************************************************************************)
\* omega = pi*k_frac/n, the factor 2 left out
FreqStepPi(freq_hz, fs) == (freq_hz * (12 \div fs)) % 24

\* omega = 2*pi*k_frac/n with k_frac = freq_hz*n/fs, in steps of 15 degrees
FreqStep(freq_hz, fs) == (freq_hz * (24 \div fs)) % 24

goertzel_freq(x, n, freq_hz, fs) ==
    LET omega == FreqStep(freq_hz, fs)
        coeff == RMul(RInt(2), CosStep(omega))
    IN  GoertzelFinal(GoertzelLoop(x, n, coeff, 0, RZero, RZero), omega)

dtmf_row_freqs == <<697, 770, 852, 941>>

dtmf_col_freqs == <<1209, 1336, 1477, 1633>>

dtmf_keys == << <<"1", "2", "3", "A">>,
                <<"4", "5", "6", "B">>,
                <<"7", "8", "9", "C">>,
                <<"*", "0", "#", "D">> >>

\* r.re*r.re + r.im*r.im
PowerOf(r) == RAdd(RMul(r.re, r.re), RMul(r.im, r.im))

\* the power at one frequency: r = goertzel_freq(...), r.re*r.re + r.im*r.im
\* (the test r = r makes TLC compute r once, before the squares)
DtmfPower(x, n, freq_hz, fs) ==
    LET r == goertzel_freq(x, n, freq_hz, fs)
    IN  IF r = r THEN PowerOf(r) ELSE RZero

\* row_power[i] and col_power[i], i = 0..3
DtmfRowPower(x, n, fs) == [i \in 0..3 |-> DtmfPower(x, n, dtmf_row_freqs[i + 1], fs)]

DtmfColPower(x, n, fs) == [i \in 0..3 |-> DtmfPower(x, n, dtmf_col_freqs[i + 1], fs)]

\* a search that keeps its first candidate
DtmfBestFirst(p, i, best) == best

\* for (i = 1; i < 4; i++) if (p[i] > p[best]) best = i;
RECURSIVE DtmfBest(_, _, _)
DtmfBest(p, i, best) ==
    IF i < 4
    THEN LET b == IF RLess(p[best], p[i]) THEN i ELSE best
         IN  IF b = b THEN DtmfBest(p, i + 1, b) ELSE b
    ELSE best

\* avg_power = (sum of the eight powers) / 8.0
DtmfAvgPower(rp, cp) ==
    RDivPow2(RAdd(RAdd(RAdd(rp[0], cp[0]), RAdd(rp[1], cp[1])),
                  RAdd(RAdd(rp[2], cp[2]), RAdd(rp[3], cp[3]))), 8)

\* p < avg_power * 2.0
DtmfRejects(p, avg_power) == RLess(p, RMul(avg_power, RInt(2)))

\* (the test row_power = row_power /\ ... makes TLC compute the eight powers
\* and their mean once, before the searches and the threshold tests)
dtmf_detect(x, n, fs) ==
    LET row_power == DtmfRowPower(x, n, fs)
        col_power == DtmfColPower(x, n, fs)
        best_row == DtmfBest(row_power, 1, 0)
        best_col == DtmfBest(col_power, 1, 0)
        avg_power == DtmfAvgPower(row_power, col_power)
    IN  IF row_power = row_power /\ col_power = col_power /\ avg_power = avg_power
        THEN IF DtmfRejects(row_power[best_row], avg_power)
                \/ DtmfRejects(col_power[best_col], avg_power)
             THEN "?"
             ELSE dtmf_keys[best_row + 1][best_col + 1]
        ELSE "?"

(***************************************************************************)
(* advanced_fft.c: the sliding DFT.                                        *)
(***************************************************************************)
SdFresh == [N |-> 0, k |-> 0, pos |-> 0, coeff |-> CZero, bin |-> CZero,
            buffer |-> Wild]

\* the value of cos and of sin at the angle 2*pi*k/0 (a NaN)
RNaN == <<0, 0, 0, 0, -1>>

\* coeff = e^{j*2*pi*k/N}: cos(omega) + j*sin(omega), omega = 2*pi*k/N
SdCoeff(N, k) ==
    IF N = 0 THEN Cplx(RNaN, RNaN)
    ELSE LET a == IF N > 0 THEN Omega(k, N) ELSE Omega(-k, -N)
         IN  Cplx(CosStep(a), SinStep(a))

\* sliding_dft_init(s, N, k) with the outcome ok of its calloc call
sliding_dft_init(s, N, k, ok) ==
    LET s1 == [s EXCEPT !.N = N, !.k = k, !.pos = 0, !.coeff = SdCoeff(N, k),
                        !.bin = CZero, !.buffer = calloc(N, RZero, ok)]
    IN  [s |-> s1, ret |-> IF s1.buffer.st = "null" THEN -1 ELSE 0, ub |-> FALSE]

SdDeltaNoEvict(sample, old_sample) == sample

\* delta = sample - old_sample
SdDelta(sample, old_sample) == RSub(sample, old_sample)

\* the update without the store of the new sample into the buffer
sliding_dft_update_nostore(s, sample) ==
    LET old_sample == s.buffer.mem[s.pos]
        delta == SdDelta(sample, old_sample)
        tmp == Cplx(RAdd(s.bin.re, delta), s.bin.im)
    IN  [s EXCEPT !.pos = (s.pos + 1) % s.N,
                  !.bin = Cplx(RSub(RMul(tmp.re, s.coeff.re), RMul(tmp.im, s.coeff.im)),
                               RAdd(RMul(tmp.re, s.coeff.im), RMul(tmp.im, s.coeff.re)))]

sliding_dft_update_stuck(s, sample) ==
    LET old_sample == s.buffer.mem[s.pos]
        delta == SdDelta(sample, old_sample)
        tmp == Cplx(RAdd(s.bin.re, delta), s.bin.im)
    IN  [s EXCEPT !.buffer = Live([s.buffer.mem EXCEPT ![s.pos] = sample]),
                  !.bin = Cplx(RSub(RMul(tmp.re, s.coeff.re), RMul(tmp.im, s.coeff.im)),
                               RAdd(RMul(tmp.re, s.coeff.im), RMul(tmp.im, s.coeff.re)))]

\* sliding_dft_update(s, sample): the struct on return; the value returned is
\* its bin
sliding_dft_update(s, sample) ==
    LET old_sample == s.buffer.mem[s.pos]
        delta == SdDelta(sample, old_sample)
        tmp == Cplx(RAdd(s.bin.re, delta), s.bin.im)
    IN  [s EXCEPT !.buffer = Live([s.buffer.mem EXCEPT ![s.pos] = sample]),
                  !.pos = (s.pos + 1) % s.N,
                  !.bin = Cplx(RSub(RMul(tmp.re, s.coeff.re), RMul(tmp.im, s.coeff.im)),
                               RAdd(RMul(tmp.re, s.coeff.im), RMul(tmp.im, s.coeff.re)))]

\* sliding_dft_free(s): if (s && s->buffer) { free(s->buffer); s->buffer = NULL; }
sliding_dft_free(s) == IF s.buffer.st # "null" THEN [s EXCEPT !.buffer = Null] ELSE s

SdFreeBad(s) == BadFree(s.buffer)

SdReleased(s) == Released(s, <<"buffer">>)

(***************************************************************************)
(* Specification SpecGoertzel: the Goertzel functions applied to every     *)
(* signal of the bounded input space.                                      *)
(***************************************************************************)
\* sample values fed to the single-bin algorithms
Samples == {RInt(-1), RInt(0), RInt(1)}

GoertzelLens == {n \in 1..MaxGoertzelLen : AngleOK(n)}

GzIdle == [n |-> 0, k |-> 0, x |-> <<>>, res |-> CZero, magsq |-> RZero,
           haveRes |-> FALSE, haveMag |-> FALSE]

\* the variables of the components a run does not exercise
GoertzelOff == gz = GzIdle

CxIdle == [N |-> 0, orig |-> <<>>, buf |-> <<>>, phase |-> "off"]

ToneIdle == [A |-> 0, phi |-> 0]

LifeIdle == [called |-> "none", ret |-> 0, ub |-> FALSE, badfree |-> FALSE,
             len1 |-> 0, len2 |-> 0, ok |-> <<>>, frees |-> 0, steps |-> 0,
             freed |-> <<>>]

FirOff == hfir = <<>> /\ xs = <<>> /\ ys = <<>>

StructsOff == ola = OlaFresh /\ ols = OlsFresh /\ sd = SdFresh

FftOff == cx = CxIdle

TrackOff == fed = <<>> /\ sdret = CZero /\ tone = ToneIdle

LifeOff == life = LifeIdle

BlockOff == blk = <<>>

HeapOff == heap = <<>> /\ inst = <<>>

CallIdle == [fn |-> "none"]

CallOff == call = CallIdle

InitGoertzel ==
    /\ pc = "goertzel"
    /\ \E n \in GoertzelLens : \E k \in -1..n : \E x \in [0..(n - 1) -> Samples] :
          gz = [GzIdle EXCEPT !.n = n, !.k = k, !.x = x]
    /\ FirOff /\ StructsOff /\ FftOff /\ TrackOff /\ LifeOff
    /\ BlockOff /\ HeapOff /\ CallOff

CallGoertzel ==
    /\ pc = "goertzel"
    /\ ~gz.haveRes
    /\ gz' = [gz EXCEPT !.res = goertzel(gz.x, gz.n, gz.k), !.haveRes = TRUE]
    /\ UNCHANGED <<pc, blk, heap, inst, call, hfir, xs, ys, ola, ols, cx, sd, fed, sdret, tone, life>>

CallGoertzelMagSq ==
    /\ pc = "goertzel"
    /\ ~gz.haveMag
    /\ gz' = [gz EXCEPT !.magsq = goertzel_magnitude_sq(gz.x, gz.n, gz.k),
                        !.haveMag = TRUE]
    /\ UNCHANGED <<pc, blk, heap, inst, call, hfir, xs, ys, ola, ols, cx, sd, fed, sdret, tone, life>>

NextGoertzel == CallGoertzel \/ CallGoertzelMagSq

SpecGoertzel == InitGoertzel /\ [][NextGoertzel]_vars

(***************************************************************************)
(* Specifications SpecOla and SpecOls: one convolver, initialised for a    *)
(* filter h of M taps and blocks of L samples, fed a stream block by block.*)
(***************************************************************************)
\* values of the filter taps and of the stream samples
Taps == {RInt(1), RInt(-2)}

StreamSamples == {RInt(0), RInt(1)}

\* values a read outside the tail block may yield
Garbage == {RInt(0), RInt(5)}

\* a block in[0..L-1] as the next L entries of a stream
BlockSeq(b, L) == [i \in 1..L |-> b[i - 1]]

\* the sizes the model can transform: the transform length must be one
\* whose twiddle factors the number model represents (1, 2, 4 or 8)
StreamSizes ==
    {c \in (1..MaxBlock) \X (1..MaxTaps) : AngleOK(next_power_of_2(c[1] + c[2] - 1))}

InitOla ==
    /\ pc = "ola"
    /\ \E c \in StreamSizes : \E h \in [0..(c[2] - 1) -> Taps] :
          /\ hfir = h
          /\ ola = ola_init(OlaFresh, h, c[2], c[1], <<TRUE, TRUE, TRUE, TRUE>>).s
    /\ xs = <<>> /\ ys = <<>> /\ ols = OlsFresh /\ sd = SdFresh
    /\ GoertzelOff /\ FftOff /\ TrackOff /\ LifeOff
    /\ BlockOff /\ HeapOff /\ CallOff

OlaProcess ==
    /\ pc = "ola"
    /\ Len(xs) + ola.block_size <= MaxStream
    /\ \E in \in [0..(ola.block_size - 1) -> StreamSamples] :
       \E g \in [(ola.fft_size - ola.block_size)..(ola.block_size - 1) -> Garbage] :
          LET r == ola_process(ola, in, g)
          IN  /\ ola' = r.s
              /\ xs' = xs \o BlockSeq(in, ola.block_size)
              /\ ys' = ys \o BlockSeq(r.out, ola.block_size)
              /\ blk' = r.in
    /\ UNCHANGED <<pc, heap, inst, call, gz, hfir, ols, cx, sd, fed, sdret, tone, life>>

NextOla == OlaProcess

SpecOla == InitOla /\ [][NextOla]_vars

InitOls ==
    /\ pc = "ols"
    /\ \E c \in StreamSizes : \E h \in [0..(c[2] - 1) -> Taps] :
          /\ hfir = h
          /\ ols = ols_init(OlsFresh, h, c[2], c[1], <<TRUE, TRUE, TRUE>>).s
    /\ xs = <<>> /\ ys = <<>> /\ ola = OlaFresh /\ sd = SdFresh
    /\ GoertzelOff /\ FftOff /\ TrackOff /\ LifeOff
    /\ BlockOff /\ HeapOff /\ CallOff

OlsProcess ==
    /\ pc = "ols"
    /\ Len(xs) + ols.block_size <= MaxStream
    /\ \E in \in [0..(ols.block_size - 1) -> StreamSamples] :
          LET r == ols_process(ols, in)
          IN  /\ ols' = r.s
              /\ xs' = xs \o BlockSeq(in, ols.block_size)
              /\ ys' = ys \o BlockSeq(r.out, ols.block_size)
              /\ blk' = r.in
    /\ UNCHANGED <<pc, heap, inst, call, gz, hfir, ola, cx, sd, fed, sdret, tone, life>>

NextOls == OlsProcess

SpecOls == InitOls /\ [][NextOls]_vars

\* either convolver, fed block by block
InitStream == InitOla \/ InitOls

NextStream == OlaProcess \/ OlsProcess

SpecStream == InitStream /\ [][NextStream]_vars

(***************************************************************************)
(* Specification SpecFft: a complex buffer of power-of-two length handed   *)
(* to fft and then to ifft.                                                *)
(***************************************************************************)
CSamples == {CZero, Cplx(RInt(1), RZero), Cplx(RInt(-1), RInt(2))}

\* the transform lengths: powers of two whose twiddle factors the number
\* model represents (1, 2, 4, 8)
FftSizes == {N \in {Pow2(m) : m \in 0..MaxFftLog} : AngleOK(N)}

InitFft ==
    /\ pc = "fft"
    /\ \E N \in FftSizes : \E x \in [0..(N - 1) -> CSamples] :
          cx = [N |-> N, orig |-> x, buf |-> x, phase |-> "in"]
    /\ FirOff /\ StructsOff /\ GoertzelOff /\ TrackOff /\ LifeOff
    /\ BlockOff /\ HeapOff /\ CallOff

CallFft ==
    /\ pc = "fft" /\ cx.phase = "in"
    /\ cx' = [cx EXCEPT !.buf = fft(cx.buf, cx.N), !.phase = "fwd"]
    /\ UNCHANGED <<pc, blk, heap, inst, call, gz, hfir, xs, ys, ola, ols, sd, fed, sdret, tone, life>>

CallIfft ==
    /\ pc = "fft" /\ cx.phase = "fwd"
    /\ cx' = [cx EXCEPT !.buf = ifft(cx.buf, cx.N), !.phase = "back"]
    /\ UNCHANGED <<pc, blk, heap, inst, call, gz, hfir, xs, ys, ola, ols, sd, fed, sdret, tone, life>>

NextFft == CallFft \/ CallIfft

SpecFft == InitFft /\ [][NextFft]_vars

(***************************************************************************)
(* Specification SpecSdft: a sliding DFT initialised for window N and bin  *)
(* k, fed arbitrary samples one at a time.                                 *)
(***************************************************************************)
SdWindows == {N \in 1..MaxWindow : AngleOK(N)}

InitSdft ==
    /\ pc = "sdft"
    /\ \E N \in SdWindows : \E k \in -1..N :
          sd = sliding_dft_init(SdFresh, N, k, TRUE).s
    /\ fed = <<>> /\ sdret = CZero /\ tone = ToneIdle
    /\ ola = OlaFresh /\ ols = OlsFresh
    /\ FirOff /\ GoertzelOff /\ FftOff /\ LifeOff
    /\ BlockOff /\ HeapOff /\ CallOff

SdUpdate ==
    /\ pc = "sdft"
    /\ Len(fed) < MaxUpdates
    /\ \E sample \in Samples :
          /\ sd' = sliding_dft_update(sd, sample)
          /\ sdret' = sd'.bin
          /\ fed' = Append(fed, sample)
    /\ UNCHANGED <<pc, blk, heap, inst, call, gz, hfir, xs, ys, ola, ols, cx, tone, life>>

NextSdft == SdUpdate

SpecSdft == InitSdft /\ [][NextSdft]_vars

(***************************************************************************)
(* Specification SpecTone: a sliding DFT tracking bin k, 0 < k < N/2, fed  *)
(* the sinusoid x[t] = A*sin(2*pi*k*t/N + phi) at the bin frequency        *)
(* k*fs/N (test_phase4.c, test 10, feeds it with A = 1, phi = 0).          *)
(***************************************************************************)
ToneWindows == {N \in 3..MaxToneWindow : AngleOK(N)}

\* sample t of the sinusoid of amplitude A and phase phi (in steps of 15
\* degrees) at the frequency of bin k of an N-sample window
ToneSample(A, phi, k, N, t) == RMul(RInt(A), SinStep((Omega(k * t, N) + phi) % 24))

InitTone ==
    /\ pc = "tone"
    /\ \E N \in ToneWindows : \E k \in 1..N :
          /\ 2 * k < N
          /\ sd = sliding_dft_init(SdFresh, N, k, TRUE).s
    /\ \E A \in 1..MaxAmp : \E phi \in 0..23 : tone = [A |-> A, phi |-> phi]
    /\ fed = <<>> /\ sdret = CZero
    /\ ola = OlaFresh /\ ols = OlsFresh
    /\ FirOff /\ GoertzelOff /\ FftOff /\ LifeOff
    /\ BlockOff /\ HeapOff /\ CallOff

ToneUpdate ==
    /\ pc = "tone"
    /\ Len(fed) < sd.N + MaxToneExtra
    /\ LET sample == ToneSample(tone.A, tone.phi, sd.k, sd.N, Len(fed))
       IN  /\ sd' = sliding_dft_update(sd, sample)
           /\ sdret' = sd'.bin
           /\ fed' = Append(fed, sample)
    /\ UNCHANGED <<pc, blk, heap, inst, call, gz, hfir, xs, ys, ola, ols, cx, tone, life>>

NextTone == ToneUpdate

SpecTone == InitTone /\ [][NextTone]_vars

(***************************************************************************)
(* Specification SpecLife: one init call on a freshly declared state       *)
(* struct, with any length arguments and any outcome of its allocations,   *)
(* followed by process calls (after a successful init) and release calls.  *)
(***************************************************************************)
LifeLens == -1..MaxLifeLen

\* a filter of filter_len taps (none when filter_len <= 0)
LifeTaps(filter_len) == [i \in 0..(filter_len - 1) |-> RInt(1)]

InitLife ==
    /\ pc = "life"
    /\ life = LifeIdle
    /\ StructsOff /\ FirOff /\ GoertzelOff /\ FftOff /\ TrackOff
    /\ BlockOff /\ HeapOff /\ CallOff

LifeOlaInit ==
    /\ pc = "life" /\ life.called = "none"
    /\ \E M \in LifeLens : \E L \in LifeLens : \E ok \in [1..4 -> BOOLEAN] :
          LET r == ola_init(ola, LifeTaps(M), M, L, ok)
          IN  /\ ola' = r.s
              /\ life' = [life EXCEPT !.called = "ola", !.ret = r.ret, !.ub = r.ub,
                                      !.len1 = M, !.len2 = L, !.ok = ok]
    /\ UNCHANGED <<pc, blk, heap, inst, call, gz, hfir, xs, ys, ols, cx, sd, fed, sdret, tone>>

LifeOlaFree ==
    /\ pc = "life" /\ life.called = "ola" /\ life.frees < MaxLifeFrees
    /\ ola' = ola_free(ola)
    /\ life' = [life EXCEPT !.frees = @ + 1, !.badfree = @ \/ OlaFreeBad(ola),
                            !.freed = @ \o OlaReleased(ola)]
    /\ UNCHANGED <<pc, blk, heap, inst, call, gz, hfir, xs, ys, ols, cx, sd, fed, sdret, tone>>

LifeOlsInit ==
    /\ pc = "life" /\ life.called = "none"
    /\ \E M \in LifeLens : \E L \in LifeLens : \E ok \in [1..3 -> BOOLEAN] :
          LET r == ols_init(ols, LifeTaps(M), M, L, ok)
          IN  /\ ols' = r.s
              /\ life' = [life EXCEPT !.called = "ols", !.ret = r.ret, !.ub = r.ub,
                                      !.len1 = M, !.len2 = L, !.ok = ok]
    /\ UNCHANGED <<pc, blk, heap, inst, call, gz, hfir, xs, ys, ola, cx, sd, fed, sdret, tone>>

LifeOlsFree ==
    /\ pc = "life" /\ life.called = "ols" /\ life.frees < MaxLifeFrees
    /\ ols' = ols_free(ols)
    /\ life' = [life EXCEPT !.frees = @ + 1, !.badfree = @ \/ OlsFreeBad(ols),
                            !.freed = @ \o OlsReleased(ols)]
    /\ UNCHANGED <<pc, blk, heap, inst, call, gz, hfir, xs, ys, ola, cx, sd, fed, sdret, tone>>

LifeSdInit ==
    /\ pc = "life" /\ life.called = "none"
    /\ \E N \in LifeLens : \E k \in 0..1 : \E ok \in [1..1 -> BOOLEAN] :
          LET r == sliding_dft_init(sd, N, k, ok[1])
          IN  /\ sd' = r.s
              /\ life' = [life EXCEPT !.called = "sdft", !.ret = r.ret, !.ub = r.ub,
                                      !.len1 = N, !.len2 = N, !.ok = ok]
    /\ UNCHANGED <<pc, blk, heap, inst, call, gz, hfir, xs, ys, ola, ols, cx, fed, sdret, tone>>

LifeSdFree ==
    /\ pc = "life" /\ life.called = "sdft" /\ life.frees < MaxLifeFrees
    /\ sd' = sliding_dft_free(sd)
    /\ life' = [life EXCEPT !.frees = @ + 1, !.badfree = @ \/ SdFreeBad(sd),
                            !.freed = @ \o SdReleased(sd)]
    /\ UNCHANGED <<pc, blk, heap, inst, call, gz, hfir, xs, ys, ola, ols, cx, fed, sdret, tone>>

\* a process call may follow an init call that succeeded on valid lengths,
\* before the first release
LifeCanStep(kind) ==
    /\ pc = "life" /\ life.called = kind /\ life.ret = 0 /\ ~life.ub
    /\ life.len1 >= 1 /\ life.len2 >= 1
    /\ life.frees = 0 /\ life.steps < MaxLifeSteps

LifeOlaProcess ==
    /\ LifeCanStep("ola")
    /\ \E g \in [(ola.fft_size - ola.block_size)..(ola.block_size - 1) -> Garbage] :
          ola' = ola_process(ola, [i \in 0..(ola.block_size - 1) |-> RInt(1)], g).s
    /\ life' = [life EXCEPT !.steps = @ + 1]
    /\ UNCHANGED <<pc, blk, heap, inst, call, gz, hfir, xs, ys, ols, cx, sd, fed, sdret, tone>>

LifeOlsProcess ==
    /\ LifeCanStep("ols")
    /\ ols' = ols_process(ols, [i \in 0..(ols.block_size - 1) |-> RInt(1)]).s
    /\ life' = [life EXCEPT !.steps = @ + 1]
    /\ UNCHANGED <<pc, blk, heap, inst, call, gz, hfir, xs, ys, ola, cx, sd, fed, sdret, tone>>

LifeSdUpdate ==
    /\ LifeCanStep("sdft")
    /\ sd' = sliding_dft_update(sd, RInt(1))
    /\ life' = [life EXCEPT !.steps = @ + 1]
    /\ UNCHANGED <<pc, blk, heap, inst, call, gz, hfir, xs, ys, ola, ols, cx, fed, sdret, tone>>

NextLife ==
    \/ LifeOlaInit \/ LifeOlaProcess \/ LifeOlaFree
    \/ LifeOlsInit \/ LifeOlsProcess \/ LifeOlsFree
    \/ LifeSdInit \/ LifeSdUpdate \/ LifeSdFree

SpecLife == InitLife /\ [][NextLife]_vars

(***************************************************************************)
(* Specification SpecPair: two state instances (OlaState, OlsState or      *)
(* SlidingDFT), each initialised by its own init call, their buffers in    *)
(* one heap, their processing calls interleaved in every order.  Beside    *)
(* each instance the run keeps what the same calls give when made on that  *)
(* instance alone (solo, souts).                                           *)
(***************************************************************************)
\* calls made on one instance
MaxInstCalls == 2

\* the pointer fields of a state struct, in the order its init allocates them
PtrOrder(kind) ==
    CASE kind = "ola" -> <<"H", "Xbuf", "tail", "padded">>
      [] kind = "ols" -> <<"H", "Xbuf", "input_buf">>
      [] kind = "sdft" -> <<"buffer">>

PtrFields(kind) == {PtrOrder(kind)[i] : i \in 1..Len(PtrOrder(kind))}

\* the element type of the block a pointer field points to
ElemOf(field) == IF field \in {"H", "Xbuf"} THEN "Complex" ELSE "double"

ZeroOf(elem) == IF elem = "Complex" THEN CZero ELSE RZero

\* an allocator that hands out a block it has handed out before when the
\* count and the element type match
HeapAllocStatic(h, count, elem) ==
    LET fresh == [elem |-> elem, mem |-> [i \in 0..(count - 1) |-> ZeroOf(elem)]]
        same == {a \in 1..Len(h) : h[a].elem = elem /\ DOMAIN h[a].mem = 0..(count - 1)}
    IN  IF same # {}
        THEN LET a == CHOOSE a \in same : \A b \in same : a <= b
             IN  [heap |-> [h EXCEPT ![a] = fresh], addr |-> a]
        ELSE [heap |-> Append(h, fresh), addr |-> Len(h) + 1]

\* calloc(count, sizeof(elem)) succeeding: a new zero-filled block at an
\* address no live block has
HeapAlloc(h, count, elem) ==
    [heap |-> Append(h, [elem |-> elem,
                         mem |-> [i \in 0..(count - 1) |-> ZeroOf(elem)]]),
     addr |-> Len(h) + 1]

\* the struct s that an init call built, with its blocks put into the heap:
\* each pointer field allocated in turn and given its contents
RECURSIVE Place(_, _, _, _)
Place(h, s, order, i) ==
    IF i > Len(order) THEN [heap |-> h, sp |-> s]
    ELSE LET f == order[i]
             a == HeapAlloc(h, Cardinality(DOMAIN s[f].mem), ElemOf(f))
             h2 == [a.heap EXCEPT ![a.addr].mem = s[f].mem]
             s2 == [s EXCEPT ![f] = a.addr]
         IN  IF h2 = h2 /\ s2 = s2 THEN Place(h2, s2, order, i + 1)
             ELSE [heap |-> h2, sp |-> s2]

\* the struct as a call sees it: each pointer followed into the heap
View(h, sp, kind) ==
    [f \in DOMAIN sp |-> IF f \in PtrFields(kind) THEN Live(h[sp[f]].mem) ELSE sp[f]]

\* the heap after a call that left the struct as s: every block the struct
\* points to holds what the call stored
Store(h, sp, s, kind) ==
    [a \in DOMAIN h |->
        IF \E f \in PtrFields(kind) : sp[f] = a
        THEN [h[a] EXCEPT !.mem = s[CHOOSE f \in PtrFields(kind) : sp[f] = a].mem]
        ELSE h[a]]

\* the struct in memory after the call: scalar fields as the call left them,
\* pointer fields still holding their addresses
Repoint(s, sp, kind) ==
    [f \in DOMAIN sp |-> IF f \in PtrFields(kind) THEN sp[f] ELSE s[f]]

\* the configurations an instance is initialised with: convolvers with a
\* block size L and M taps, trackers with a window N and a bin k
InstConfigs ==
    {[kind |-> kd, L |-> c[1], M |-> c[2], N |-> 0, k |-> 0] :
        kd \in {"ola", "ols"}, c \in {<<1, 1>>, <<1, 2>>, <<2, 2>>}}
      \cup {[kind |-> "sdft", L |-> 1, M |-> 0, N |-> 3, k |-> 1]}

\* the taps of an instance's filter
InstTaps(M) == [i \in 0..(M - 1) |-> IF i = 0 THEN RInt(1) ELSE RInt(-2)]

\* the init call of a configuration, every allocation succeeding
InstInit(c) ==
    CASE c.kind = "ola" ->
            ola_init(OlaFresh, InstTaps(c.M), c.M, c.L, <<TRUE, TRUE, TRUE, TRUE>>).s
      [] c.kind = "ols" ->
            ols_init(OlsFresh, InstTaps(c.M), c.M, c.L, <<TRUE, TRUE, TRUE>>).s
      [] c.kind = "sdft" -> sliding_dft_init(SdFresh, c.N, c.k, TRUE).s

\* one processing call on a struct: ola_process, ols_process or
\* sliding_dft_update (whose block is one sample and whose output is the bin)
SdStep(t, in) == [s |-> t, out |-> (0 :> t.bin), in |-> in]

InstStep(kind, st, in, g) ==
    CASE kind = "ola" -> ola_process(st, in, g)
      [] kind = "ols" -> ols_process(st, in)
      [] kind = "sdft" -> SdStep(sliding_dft_update(st, in[0]), in)

\* the same call made on a struct whose buffers are in the heap
HeapStored(h, sp, kind, r) ==
    [heap |-> Store(h, sp, r.s, kind), sp |-> Repoint(r.s, sp, kind), out |-> r.out]

HeapStep(h, sp, kind, in, g) ==
    HeapStored(h, sp, kind, InstStep(kind, View(h, sp, kind), in, g))

\* the indices at which ola_process reads tail[i] outside the tail block
OverrunIdx(kind, st) ==
    IF kind = "ola" THEN (st.fft_size - st.block_size)..(st.block_size - 1) ELSE {}

\* the two instances once their buffers are placed (p1, then p2)
PairPlaced(c1, c2, s1, s2, p1, p2) ==
    /\ heap = p2.heap
    /\ inst = << [kind |-> c1.kind, L |-> c1.L, sp |-> p1.sp, solo |-> s1,
                  outs |-> <<>>, souts |-> <<>>],
                 [kind |-> c2.kind, L |-> c2.L, sp |-> p2.sp, solo |-> s2,
                  outs |-> <<>>, souts |-> <<>>] >>

PairSecond(c1, c2, s1, s2, p1) ==
    PairPlaced(c1, c2, s1, s2, p1, Place(p1.heap, s2, PtrOrder(c2.kind), 1))

PairFirst(c1, c2, s1, s2) ==
    PairSecond(c1, c2, s1, s2, Place(<<>>, s1, PtrOrder(c1.kind), 1))

InitPair ==
    /\ pc = "pair"
    /\ \E c1 \in InstConfigs, c2 \in InstConfigs :
          PairFirst(c1, c2, InstInit(c1), InstInit(c2))
    /\ FirOff /\ StructsOff /\ GoertzelOff /\ FftOff /\ TrackOff /\ LifeOff
    /\ BlockOff /\ CallOff

\* instance i after a call that gave r on the heap and q alone
PairReturn(i, r, q) ==
    /\ heap' = r.heap
    /\ inst' = [inst EXCEPT ![i] =
                  [@ EXCEPT !.sp = r.sp, !.solo = q.s,
                            !.outs = Append(@, r.out),
                            !.souts = Append(@, q.out)]]

\* one processing call on instance i; g is what its out-of-block reads of
\* tail yield in this run, g2 what they yield when the instance runs alone
PairCall(i) ==
    /\ pc = "pair"
    /\ Len(inst[i].outs) < MaxInstCalls
    /\ \E in \in [0..(inst[i].L - 1) -> StreamSamples] :
       \E g \in [OverrunIdx(inst[i].kind, inst[i].solo) -> Garbage] :
       \E g2 \in [OverrunIdx(inst[i].kind, inst[i].solo) -> Garbage] :
          PairReturn(i, HeapStep(heap, inst[i].sp, inst[i].kind, in, g),
                     InstStep(inst[i].kind, inst[i].solo, in, g2))
    /\ UNCHANGED <<pc, gz, hfir, xs, ys, ola, ols, cx, sd, fed, sdret, tone, life,
                   blk, call>>

NextPair == PairCall(1) \/ PairCall(2)

SpecPair == InitPair /\ [][NextPair]_vars


(***************************************************************************)
(* Specification SpecDtmf: dtmf_detect applied to a frame holding a row    *)
(* tone and a column tone, each of amplitude 0 (absent) up to MaxDtmfAmp,  *)
(* sampled at a rate the number model represents.  The call record keeps   *)
(* the locals row_power and col_power beside the result.                   *)
(***************************************************************************)
MaxDtmfAmp == 1

MaxDtmfLen == 12

\* frame lengths
DtmfFrameLens == {n \in 6..MaxDtmfLen : n % 6 = 0}

\* sampling rates
DtmfRates == {8, 12, 24}

\* sample t of the frame: ar*sin(2*pi*fr*t/fs) + ac*sin(2*pi*fc*t/fs)
DtmfFrame(ar, fr, ac, fc, fs, n) ==
    [t \in 0..(n - 1) |->
        RAdd(RMul(RInt(ar), SinStep((FreqStep(fr, fs) * t) % 24)),
             RMul(RInt(ac), SinStep((FreqStep(fc, fs) * t) % 24)))]

InitDtmf ==
    /\ pc = "dtmf"
    /\ \E r \in 1..4, c \in 1..4, ar \in 0..MaxDtmfAmp, ac \in 0..MaxDtmfAmp,
          n \in DtmfFrameLens, fs \in DtmfRates :
          call = [fn |-> "dtmf_detect", n |-> n, fs |-> fs,
                  x |-> DtmfFrame(ar, dtmf_row_freqs[r], ac, dtmf_col_freqs[c], fs, n),
                  done |-> FALSE, res |-> "?", row_power |-> <<>>, col_power |-> <<>>]
    /\ FirOff /\ StructsOff /\ GoertzelOff /\ FftOff /\ TrackOff /\ LifeOff
    /\ BlockOff /\ HeapOff

CallDtmf ==
    /\ pc = "dtmf" /\ ~call.done
    /\ call' = [call EXCEPT !.done = TRUE,
                            !.res = dtmf_detect(call.x, call.n, call.fs),
                            !.row_power = DtmfRowPower(call.x, call.n, call.fs),
                            !.col_power = DtmfColPower(call.x, call.n, call.fs)]
    /\ UNCHANGED <<pc, gz, hfir, xs, ys, ola, ols, cx, sd, fed, sdret, tone, life,
                   blk, heap, inst>>

NextDtmf == CallDtmf

SpecDtmf == InitDtmf /\ [][NextDtmf]_vars

(***************************************************************************)
(* Specification SpecPow2: next_power_of_2 run one loop iteration at a     *)
(* time, with p an int of IntBits bits.  The call record holds the         *)
(* argument n, the local p, the iterations made (it), whether a shift has  *)
(* overflowed (ub) and whether the function has returned (done, with p     *)
(* the value returned).                                                    *)
(***************************************************************************)
\* the width of int and its largest value
IntBits == 32

IntMax == 2147483647

\* small arguments, and iterations after which a run is left alone
MaxPow2Arg == 40

MaxPow2Iter == 34

\* p << 1 reduced to the width of int (the low IntBits bits of 2*p, signed)
ShlWrap(p) ==
    IF p > IntMax \div 2 THEN (p - IntMax - 1) * 2
    ELSE IF p < -(IntMax \div 2) - 1 THEN (p + IntMax + 1) * 2
    ELSE 2 * p

\* p << 1 on a signed int is undefined when p is negative or 2*p is not
\* representable
ShlUndefined(p) == p < 0 \/ p > IntMax \div 2

\* the values p <<= 1 can leave in p: 2*p; where undefined, the wrapped
\* value or 0
ShlOutcomes(p) == IF ShlUndefined(p) THEN {ShlWrap(p), 0} ELSE {2 * p}

\* the arguments: the small ones and those around 2^(IntBits-2)
Pow2Args ==
    (1..MaxPow2Arg) \cup {IntMax \div 2, IntMax \div 2 + 1, IntMax \div 2 + 2, IntMax}

InitPow2 ==
    /\ pc = "pow2"
    /\ \E n \in Pow2Args :
          call = [fn |-> "next_power_of_2", n |-> n, p |-> 1, it |-> 0,
                  ub |-> FALSE, done |-> FALSE]
    /\ FirOff /\ StructsOff /\ GoertzelOff /\ FftOff /\ TrackOff /\ LifeOff
    /\ BlockOff /\ HeapOff

\* while (p < n) p <<= 1;   one iteration
Pow2Shift ==
    /\ pc = "pow2" /\ ~call.done /\ call.p < call.n
    /\ call.it < MaxPow2Iter
    /\ \E q \in ShlOutcomes(call.p) :
          call' = [call EXCEPT !.p = q, !.it = @ + 1,
                               !.ub = @ \/ ShlUndefined(call.p)]
    /\ UNCHANGED <<pc, gz, hfir, xs, ys, ola, ols, cx, sd, fed, sdret, tone, life,
                   blk, heap, inst>>

\* return p;   once p < n is false
Pow2Return ==
    /\ pc = "pow2" /\ ~call.done /\ ~(call.p < call.n)
    /\ call' = [call EXCEPT !.done = TRUE]
    /\ UNCHANGED <<pc, gz, hfir, xs, ys, ola, ols, cx, sd, fed, sdret, tone, life,
                   blk, heap, inst>>

NextPow2 == Pow2Shift \/ Pow2Return

SpecPow2 == InitPow2 /\ [][NextPow2]_vars

(***************************************************************************)
(* Q15 fixed point (fixed_point.c).  q15_t is int16_t; sums are formed in  *)
(* int32_t and brought back to 16 bits by saturate_q15.                    *)
(***************************************************************************)
Q15_ONE == 32767

Q15_MINUS_ONE == -32768

\* the conversion (q15_t)value: the low 16 bits of value, signed
ToInt16(value) == ((value + 32768) % 65536) - 32768

\* saturate_q15 without its two clamping branches: the cast alone
saturate_q15_wrap(value) == ToInt16(value)

saturate_q15(value) ==
    IF value > 32767 THEN ToInt16(32767)
    ELSE IF value < -32768 THEN ToInt16(-32768)
    ELSE ToInt16(value)

q15_add(a, b) == saturate_q15(a + b)

q15_sub(a, b) == saturate_q15(a - b)

(***************************************************************************)
(* Specification SpecQ15: one call of q15_add or q15_sub on operands near  *)
(* the ends, the middle and the half points of the Q15 range.              *)
(***************************************************************************)
MaxQ15Off == 2

Q15Vals ==
    UNION {{Q15_MINUS_ONE + i, -16384 + i, -i, i, 16384 - i, Q15_ONE - i} :
           i \in 0..MaxQ15Off}

InitQ15 ==
    /\ pc = "q15"
    /\ \E fn \in {"q15_add", "q15_sub"}, a \in Q15Vals, b \in Q15Vals :
          call = [fn |-> fn, a |-> a, b |-> b, done |-> FALSE, res |-> 0]
    /\ FirOff /\ StructsOff /\ GoertzelOff /\ FftOff /\ TrackOff /\ LifeOff
    /\ BlockOff /\ HeapOff

CallQ15Add ==
    /\ pc = "q15" /\ call.fn = "q15_add" /\ ~call.done
    /\ call' = [call EXCEPT !.done = TRUE, !.res = q15_add(call.a, call.b)]
    /\ UNCHANGED <<pc, gz, hfir, xs, ys, ola, ols, cx, sd, fed, sdret, tone, life,
                   blk, heap, inst>>

CallQ15Sub ==
    /\ pc = "q15" /\ call.fn = "q15_sub" /\ ~call.done
    /\ call' = [call EXCEPT !.done = TRUE, !.res = q15_sub(call.a, call.b)]
    /\ UNCHANGED <<pc, gz, hfir, xs, ys, ola, ols, cx, sd, fed, sdret, tone, life,
                   blk, heap, inst>>

NextQ15 == CallQ15Add \/ CallQ15Sub

SpecQ15 == InitQ15 /\ [][NextQ15]_vars

(***************************************************************************)
(* Specification SpecFirQ15: fir_filter_q15 run one multiply-add at a      *)
(* time.  The call record holds the arguments, the loop indices i and k,   *)
(* the int32_t accumulator acc, the output y written so far, and whether   *)
(* an addition into acc has overflowed (ovf).                              *)
(***************************************************************************)
MaxQ15Len == 2

MaxQ15Taps == 3

Q15FirVals == {Q15_MINUS_ONE, 1, Q15_ONE}

\* acc + prod is not representable in int32_t
AccOverflows(acc, prod) ==
    \/ prod > 0 /\ acc > IntMax - prod
    \/ prod < 0 /\ acc < (-IntMax - 1) - prod

\* acc + prod reduced to 32 bits, for a sum that is not representable
AccWrap(acc, prod) ==
    IF prod > 0 THEN (acc - IntMax - 1) + (prod - IntMax - 1)
    ELSE (acc + IntMax + 1) + (prod + IntMax + 1)

\* the values acc += prod can leave in acc: the sum; where the signed
\* addition overflows (undefined), the wrapped sum or the nearest end
AccOutcomes(acc, prod) ==
    IF AccOverflows(acc, prod)
    THEN {AccWrap(acc, prod), IF prod > 0 THEN IntMax ELSE -IntMax - 1}
    ELSE {acc + prod}

\* q15_t sample = (idx >= 0) ? x[idx] : 0;   x is 0-indexed in the code
FirQ15Sample(x, idx) == IF idx >= 0 THEN x[idx + 1] ELSE 0

InitFirQ15 ==
    /\ pc = "firq15"
    /\ \E n \in 1..MaxQ15Len, taps \in 1..MaxQ15Taps :
          \E x \in [1..n -> Q15FirVals], h \in [1..taps -> Q15FirVals] :
              call = [fn |-> "fir_filter_q15", x |-> x, h |-> h, n |-> n,
                      taps |-> taps, i |-> 0, k |-> 0, acc |-> 0, y |-> <<>>,
                      ovf |-> FALSE, done |-> FALSE]
    /\ FirOff /\ StructsOff /\ GoertzelOff /\ FftOff /\ TrackOff /\ LifeOff
    /\ BlockOff /\ HeapOff

\* acc += (int32_t)h[k] * (int32_t)sample;
FirQ15Mac ==
    /\ pc = "firq15" /\ ~call.done /\ call.i < call.n /\ call.k < call.taps
    /\ LET prod == call.h[call.k + 1] * FirQ15Sample(call.x, call.i - call.k)
       IN \E a \in AccOutcomes(call.acc, prod) :
              call' = [call EXCEPT !.acc = a, !.k = @ + 1,
                                   !.ovf = @ \/ AccOverflows(call.acc, prod)]
    /\ UNCHANGED <<pc, gz, hfir, xs, ys, ola, ols, cx, sd, fed, sdret, tone, life,
                   blk, heap, inst>>

\* y[i] = saturate_q15(acc >> 15);   and the next i starts with acc = 0
FirQ15Store ==
    /\ pc = "firq15" /\ ~call.done /\ call.i < call.n /\ call.k = call.taps
    /\ call' = [call EXCEPT !.y = Append(@, saturate_q15(call.acc \div 32768)),
                            !.i = @ + 1, !.k = 0, !.acc = 0]
    /\ UNCHANGED <<pc, gz, hfir, xs, ys, ola, ols, cx, sd, fed, sdret, tone, life,
                   blk, heap, inst>>

FirQ15Return ==
    /\ pc = "firq15" /\ ~call.done /\ call.i = call.n
    /\ call' = [call EXCEPT !.done = TRUE]
    /\ UNCHANGED <<pc, gz, hfir, xs, ys, ola, ols, cx, sd, fed, sdret, tone, life,
                   blk, heap, inst>>

NextFirQ15 == FirQ15Mac \/ FirQ15Store \/ FirQ15Return

SpecFirQ15 == InitFirQ15 /\ [][NextFirQ15]_vars

(***************************************************************************)
(* correlation.c: FFT-based cross-correlation and autocorrelation.         *)
(* The arguments x, y and r are pointers: NULL, or live with the array     *)
(* they point to (a function on 0..len-1).  okx and oky tell whether the   *)
(* two calloc calls for the work buffers succeed.                          *)
(***************************************************************************)
\* a signal loaded into the front of a zero-filled work buffer
CorrLoad(b, x, nx, nfft) ==
    [i \in 0..(nfft - 1) |-> IF i < nx THEN Cplx(x[i], RZero) ELSE b[i]]

\* X[k] * Y[k] in place of conj(X[k]) * Y[k]
ConjMulPlain(X, Y, nfft) ==
    [k \in 0..(nfft - 1) |->
        Cplx(RSub(RMul(X[k].re, Y[k].re), RMul(X[k].im, Y[k].im)),
             RAdd(RMul(X[k].re, Y[k].im), RMul(X[k].im, Y[k].re)))]

\* bx[k] = conj(X[k]) * Y[k]:  re = xr*yr + xi*yi,  im = xr*yi - xi*yr
ConjMul(X, Y, nfft) ==
    [k \in 0..(nfft - 1) |->
        Cplx(RAdd(RMul(X[k].re, Y[k].re), RMul(X[k].im, Y[k].im)),
             RSub(RMul(X[k].re, Y[k].im), RMul(X[k].im, Y[k].re)))]

\* r[nx-1+m] = bx[m].re for m = 0..ny-1; r[nx-1-m] = bx[nfft-m].re for
\* m = 1..nx-1; every other entry of r keeps its value
CorrUnwrap(r, bx, nx, ny, nfft) ==
    [i \in DOMAIN r |->
        IF i >= nx - 1 /\ i - (nx - 1) < ny THEN bx[i - (nx - 1)].re
        ELSE IF i < nx - 1 /\ i >= 0 THEN bx[nfft - (nx - 1 - i)].re
        ELSE r[i]]

\* ifft(bx, nfft) of the spectral product, and the copy into r
CorrFinish(r, c, nx, ny, nfft) ==
    IF c = c THEN [ret |-> nx + ny - 1, r |-> Live(CorrUnwrap(r.mem, c, nx, ny, nfft))]
    ELSE [ret |-> -1, r |-> r]

\* from the two transforms to the returned values
CorrSpectra(r, X, Y, nx, ny, nfft) ==
    IF X = X /\ Y = Y
    THEN CorrFinish(r, ifft(ConjMul(X, Y, nfft), nfft), nx, ny, nfft)
    ELSE [ret |-> -1, r |-> r]

\* the two work buffers allocated, or -1 when either calloc fails
CorrBuffers(x, nx, y, ny, r, bx, by, nfft) ==
    IF bx.st = "null" \/ by.st = "null" THEN [ret |-> -1, r |-> r]
    ELSE CorrSpectra(r, fft(CorrLoad(bx.mem, x, nx, nfft), nfft),
                     fft(CorrLoad(by.mem, y, ny, nfft), nfft), nx, ny, nfft)

\* r_len = nx + ny - 1 and nfft = next_power_of_2(r_len)
CorrSized(x, nx, y, ny, r, okx, oky, nfft) ==
    CorrBuffers(x, nx, y, ny, r, calloc(nfft, CZero, okx), calloc(nfft, CZero, oky),
                nfft)

\* xcorr_raw whose argument check returns 0 in place of -1
xcorr_raw_zero(x, nx, y, ny, r, okx, oky) ==
    IF x.st = "null" \/ y.st = "null" \/ r.st = "null" \/ nx <= 0 \/ ny <= 0
    THEN [ret |-> 0, r |-> r]
    ELSE CorrSized(x.mem, nx, y.mem, ny, r, okx, oky, next_power_of_2(nx + ny - 1))

\* if (!x || !y || !r || nx <= 0 || ny <= 0) return -1;
xcorr_raw(x, nx, y, ny, r, okx, oky) ==
    IF x.st = "null" \/ y.st = "null" \/ r.st = "null" \/ nx <= 0 \/ ny <= 0
    THEN [ret |-> -1, r |-> r]
    ELSE CorrSized(x.mem, nx, y.mem, ny, r, okx, oky, next_power_of_2(nx + ny - 1))

xcorr(x, nx, y, ny, r, okx, oky) == xcorr_raw(x, nx, y, ny, r, okx, oky)

autocorr(x, n, r, okx, oky) == xcorr_raw(x, n, x, n, r, okx, oky)

\* The entries of a normalised output are kept as fractions num/den in
\* lowest terms with den > 0 (both integers in every run of the exact
\* transform); an entry that was not divided is num/1.
Quot(num, den) == [num |-> num, den |-> den]

\* the double 1.0
QuotOne == Quot(RInt(1), RInt(1))

\* whether v is a number without a root part
IsRational(v) == v[2] = 0 /\ v[3] = 0 /\ v[4] = 0

\* x / y for y # 0
RDiv(x, y) ==
    IF IsRational(x) /\ IsRational(y)
    THEN LET p == x[1] * Pow2(y[5])
             q == y[1] * Pow2(x[5])
             g == Gcd(Abs(p), Abs(q))
             sg == IF q < 0 THEN -1 ELSE 1
         IN  Quot(RInt(sg * (p \div g)), RInt(sg * (q \div g)))
    ELSE IF x = y THEN QuotOne ELSE Quot(x, y)

\* fabs(r0) < 1e-30: every value the exact transform of integer samples
\* yields is an integer, and an integer is below 1e-30 in magnitude only
\* when it is 0
BelowTiny(r0) == RSign(r0) = 0

\* r0 = r[n - 1]; if (fabs(r0) < 1e-30) return r_len; r[i] /= r0 for all i
NormalizeByLagZero(raw, n, r0) ==
    IF BelowTiny(r0)
    THEN [ret |-> raw.ret,
          r |-> Live([i \in DOMAIN raw.r.mem |-> Quot(raw.r.mem[i], RInt(1))])]
    ELSE [ret |-> raw.ret,
          r |-> Live([i \in DOMAIN raw.r.mem |->
                         IF i < raw.ret THEN RDiv(raw.r.mem[i], r0)
                         ELSE Quot(raw.r.mem[i], RInt(1))])]

\* if (r_len < 0) return -1;
AutocorrNormalize(raw, n) ==
    IF raw.ret < 0 THEN [ret |-> -1, r |-> raw.r]
    ELSE NormalizeByLagZero(raw, n, raw.r.mem[n - 1])

autocorr_normalized(x, n, r, okx, oky) ==
    AutocorrNormalize(xcorr_raw(x, n, x, n, r, okx, oky), n)

\* for (i = 0; i < n; i++) e += x[i] * x[i];   from index i on
RECURSIVE CorrEnergy(_, _, _)
CorrEnergy(x, n, i) ==
    IF i >= n THEN RZero
    ELSE LET rest == CorrEnergy(x, n, i + 1)
         IN  IF rest = rest THEN RAdd(RMul(x[i], x[i]), rest) ELSE rest

\* sqrt(p) for an integer p >= 0: the integer root where p is a square,
\* else the root kept as a symbol
CorrSqrt(p) ==
    IF \E q \in 0..p[1] : q * q = p[1]
    THEN RInt(CHOOSE q \in 0..p[1] : q * q = p[1])
    ELSE [sqrt |-> p]

\* r[i] / norm
CorrDivNorm(v, p) ==
    IF \E q \in 0..p[1] : q * q = p[1] THEN RDiv(v, CorrSqrt(p))
    ELSE Quot(v, CorrSqrt(p))

\* norm = sqrt(ex * ey); if (norm < 1e-30) return r_len; r[i] /= norm
NormalizeByEnergy(raw, p) ==
    IF BelowTiny(p)
    THEN [ret |-> raw.ret,
          r |-> Live([i \in DOMAIN raw.r.mem |-> Quot(raw.r.mem[i], RInt(1))])]
    ELSE [ret |-> raw.ret,
          r |-> Live([i \in DOMAIN raw.r.mem |->
                         IF i < raw.ret THEN CorrDivNorm(raw.r.mem[i], p)
                         ELSE Quot(raw.r.mem[i], RInt(1))])]

\* if (r_len < 0) return -1;   then the two energies
XcorrNormalize(raw, x, nx, y, ny) ==
    IF raw.ret < 0 THEN [ret |-> -1, r |-> raw.r]
    ELSE NormalizeByEnergy(raw, RMul(CorrEnergy(x.mem, nx, 0), CorrEnergy(y.mem, ny, 0)))

xcorr_normalized(x, nx, y, ny, r, okx, oky) ==
    XcorrNormalize(xcorr_raw(x, nx, y, ny, r, okx, oky), x, nx, y, ny)

(***************************************************************************)
(* Specification SpecCorr: one call of xcorr, xcorr_normalized, autocorr   *)
(* or autocorr_normalized on short integer signals.  One of the pointer    *)
(* arguments may be NULL and a length may be 0 or negative; a live output  *)
(* array r has nx + ny - 1 entries holding an arbitrary value each.        *)
(***************************************************************************)
MaxCorrLen == 2

CorrSamples == {RInt(-1), RInt(0), RInt(2)}

\* what the caller's output array holds before the call
CorrGarbage == RInt(5)

\* the lengths whose transform size the number model represents
CorrLens ==
    {l \in (-1..MaxCorrLen) \X (-1..MaxCorrLen) :
        AngleOK(next_power_of_2(l[1] + l[2] - 1))}

\* the pointer argument that is NULL, if any
CorrNulls == {"none", "x", "y", "r"}

\* the pointer passed for an array: NULL when it is the argument named by nul
CorrPtr(arg, nul, mem) == IF arg = nul THEN Null ELSE Live(mem)

CorrCall(fn, x, nx, y, ny, nul, okx, oky) ==
    [fn |-> fn, x |-> x, nx |-> nx, y |-> y, ny |-> ny, okx |-> okx, oky |-> oky,
     r |-> CorrPtr("r", nul, [i \in 0..(nx + ny - 2) |-> CorrGarbage]),
     r0 |-> CorrPtr("r", nul, [i \in 0..(nx + ny - 2) |-> CorrGarbage]),
     done |-> FALSE, ret |-> 0]

InitCorr ==
    /\ pc = "corr"
    /\ \E l \in CorrLens, nul \in CorrNulls, okx \in BOOLEAN, oky \in BOOLEAN :
          \E xm \in [0..(l[1] - 1) -> CorrSamples] :
              \/ \E ym \in [0..(l[2] - 1) -> CorrSamples],
                     fn \in {"xcorr", "xcorr_normalized"} :
                     call = CorrCall(fn, CorrPtr("x", nul, xm), l[1],
                                     CorrPtr("y", nul, ym), l[2], nul, okx, oky)
              \/ \E fn \in {"autocorr", "autocorr_normalized"} :
                     /\ l[1] = l[2] /\ nul # "y"
                     /\ call = CorrCall(fn, CorrPtr("x", nul, xm), l[1],
                                        CorrPtr("x", nul, xm), l[1], nul, okx, oky)
    /\ FirOff /\ StructsOff /\ GoertzelOff /\ FftOff /\ TrackOff /\ LifeOff
    /\ BlockOff /\ HeapOff

\* the call has returned res.ret, with the output array holding res.r
CorrReturn(c, res) == [c EXCEPT !.done = TRUE, !.ret = res.ret, !.r = res.r]

CallXcorr ==
    /\ pc = "corr" /\ call.fn = "xcorr" /\ ~call.done
    /\ call' = CorrReturn(call, xcorr(call.x, call.nx, call.y, call.ny, call.r, call.okx, call.oky))
    /\ UNCHANGED <<pc, gz, hfir, xs, ys, ola, ols, cx, sd, fed, sdret, tone, life,
                   blk, heap, inst>>

CallXcorrNormalized ==
    /\ pc = "corr" /\ call.fn = "xcorr_normalized" /\ ~call.done
    /\ call' = CorrReturn(call, xcorr_normalized(call.x, call.nx, call.y, call.ny, call.r, call.okx, call.oky))
    /\ UNCHANGED <<pc, gz, hfir, xs, ys, ola, ols, cx, sd, fed, sdret, tone, life,
                   blk, heap, inst>>

CallAutocorr ==
    /\ pc = "corr" /\ call.fn = "autocorr" /\ ~call.done
    /\ call' = CorrReturn(call, autocorr(call.x, call.nx, call.r, call.okx, call.oky))
    /\ UNCHANGED <<pc, gz, hfir, xs, ys, ola, ols, cx, sd, fed, sdret, tone, life,
                   blk, heap, inst>>

CallAutocorrNormalized ==
    /\ pc = "corr" /\ call.fn = "autocorr_normalized" /\ ~call.done
    /\ call' = CorrReturn(call, autocorr_normalized(call.x, call.nx, call.r, call.okx, call.oky))
    /\ UNCHANGED <<pc, gz, hfir, xs, ys, ola, ols, cx, sd, fed, sdret, tone, life,
                   blk, heap, inst>>

NextCorr == CallXcorr \/ CallXcorrNormalized \/ CallAutocorr \/ CallAutocorrNormalized

SpecCorr == InitCorr /\ [][NextCorr]_vars

(***************************************************************************)
(* Specification SpecTwin: two sliding DFTs of bin 0 with the same window  *)
(* N, each fed its own samples, in IEEE binary64 arithmetic.  A double is  *)
(* the pair <<h, l>> standing for the integer h * 2^54 + l with small h    *)
(* and l; every such integer below 2^53 in magnitude is a double, larger   *)
(* ones are rounded to 53 significant bits, ties to even.  For k = 0       *)
(* sliding_dft_init stores coeff = (cos 0, sin 0) = (1, 0) exactly, so the *)
(* complex multiplication of the update changes nothing and each update    *)
(* rounds twice: delta = sample - old_sample and bin.re + delta.           *)
(* inst[i] holds tracker i (sd) and the samples it has been fed (fed).     *)
(***************************************************************************)
MaxTwinWindow == 2

\* updates a tracker gets beyond its first N
MaxTwinExtra == 2

DblZero == <<0, 0>>

\* the spacing of the doubles around h * 2^54 + l (h # 0): 2^(e - 52) where
\* 2^e <= |h * 2^54 + l| < 2^(e + 1)
DblUlp(h, l) ==
    LET e == Log2(Abs(h))
        below == Pow2(e) = Abs(h) /\ ((h > 0 /\ l < 0) \/ (h < 0 /\ l > 0))
    IN  IF below THEN Pow2(e + 1) ELSE Pow2(e + 2)

\* l rounded to a multiple of u, a tie going to the even multiple
RoundEven(l, u) ==
    LET q == l \div u
        r == l % u
    IN  IF 2 * r < u THEN q * u
        ELSE IF 2 * r > u THEN (q + 1) * u
        ELSE IF q % 2 = 0 THEN q * u ELSE (q + 1) * u

\* the double nearest to h * 2^54 + l
DblRound(h, l) == IF h = 0 THEN <<h, l>> ELSE <<h, RoundEven(l, DblUlp(h, l))>>

\* a + b and a - b of doubles a and b
DblAdd(a, b) == DblRound(a[1] + b[1], a[2] + b[2])

DblSub(a, b) == DblRound(a[1] - b[1], a[2] - b[2])

\* sliding_dft_init(s, N, 0) with a successful calloc
sliding_dft_init_bin0(N) ==
    [N |-> N, k |-> 0, pos |-> 0, bin |-> [re |-> DblZero, im |-> DblZero],
     buffer |-> [i \in 0..(N - 1) |-> DblZero]]

\* sliding_dft_update(s, sample) of a bin-0 tracker
sliding_dft_update_bin0(s, sample) ==
    LET old_sample == s.buffer[s.pos]
        delta == DblSub(sample, old_sample)
    IN  [s EXCEPT !.buffer = [@ EXCEPT ![s.pos] = sample],
                  !.pos = (s.pos + 1) % s.N,
                  !.bin = [re |-> DblAdd(s.bin.re, delta), im |-> s.bin.im]]

\* the samples 0, 1 and 2^54
TwinSamples == {<<0, 0>>, <<0, 1>>, <<1, 0>>}

InitTwin ==
    /\ pc = "twin"
    /\ \E N \in 1..MaxTwinWindow :
          inst = << [sd |-> sliding_dft_init_bin0(N), fed |-> <<>>],
                    [sd |-> sliding_dft_init_bin0(N), fed |-> <<>>] >>
    /\ heap = <<>>
    /\ FirOff /\ StructsOff /\ GoertzelOff /\ FftOff /\ TrackOff /\ LifeOff
    /\ BlockOff /\ CallOff

\* one sliding_dft_update call on tracker i
TwinUpdate(i) ==
    /\ pc = "twin"
    /\ Len(inst[i].fed) < inst[i].sd.N + MaxTwinExtra
    /\ \E sample \in TwinSamples :
          inst' = [inst EXCEPT ![i] = [sd |-> sliding_dft_update_bin0(@.sd, sample),
                                       fed |-> Append(@.fed, sample)]]
    /\ UNCHANGED <<pc, gz, hfir, xs, ys, ola, ols, cx, sd, fed, sdret, tone, life,
                   blk, heap, call>>

NextTwin == TwinUpdate(1) \/ TwinUpdate(2)

SpecTwin == InitTwin /\ [][NextTwin]_vars

(***************************************************************************)
(* Specification SpecFreq: goertzel and goertzel_freq called on the same   *)
(* signal, goertzel_freq at the frequency k*fs/n of bin k.  The sampling   *)
(* rates are those for which k*fs/n is a whole number of hertz and the     *)
(* angle a whole number of 15-degree steps.                                *)
(***************************************************************************)
MaxFreqLen == 6

FreqRates == {1, 2, 3, 4, 6, 8, 12, 24}

FreqLens == {n \in 1..MaxFreqLen : AngleOK(n)}

InitFreq ==
    /\ pc = "freq"
    /\ \E n \in FreqLens : \E k \in 0..(n - 1) : \E x \in [0..(n - 1) -> Samples] :
       \E fs \in {f \in FreqRates : (k * f) % n = 0} :
          call = [fn |-> "goertzel_freq", x |-> x, n |-> n, k |-> k, fs |-> fs,
                  freq_hz |-> (k * fs) \div n,
                  bin |-> CZero, gen |-> CZero, haveBin |-> FALSE, haveGen |-> FALSE]
    /\ FirOff /\ StructsOff /\ GoertzelOff /\ FftOff /\ TrackOff /\ LifeOff
    /\ BlockOff /\ HeapOff

\* goertzel(x, n, k)
FreqCallBin ==
    /\ pc = "freq" /\ ~call.haveBin
    /\ call' = [call EXCEPT !.bin = goertzel(call.x, call.n, call.k), !.haveBin = TRUE]
    /\ UNCHANGED <<pc, gz, hfir, xs, ys, ola, ols, cx, sd, fed, sdret, tone, life,
                   blk, heap, inst>>

\* goertzel_freq(x, n, k*fs/n, fs)
FreqCallGeneral ==
    /\ pc = "freq" /\ ~call.haveGen
    /\ call' = [call EXCEPT !.gen = goertzel_freq(call.x, call.n, call.freq_hz, call.fs),
                            !.haveGen = TRUE]
    /\ UNCHANGED <<pc, gz, hfir, xs, ys, ola, ols, cx, sd, fed, sdret, tone, life,
                   blk, heap, inst>>

NextFreq == FreqCallBin \/ FreqCallGeneral

SpecFreq == InitFreq /\ [][NextFreq]_vars

(***************************************************************************)
(* The DFT bin by its definition, used to state the claims.                *)
(***************************************************************************)
\* sum over m = i..n-1 of x[m] * e^{-j*2*pi*k*m/n}
RECURSIVE DftSum(_, _, _, _)
DftSum(x, n, k, i) ==
    IF i >= n THEN CZero
    ELSE LET rest == DftSum(x, n, k, i + 1)
             a == Omega(k * i, n)
         IN  Cplx(RAdd(RMul(x[i], CosStep(a)), rest.re),
                  RSub(rest.im, RMul(x[i], SinStep(a))))

DftBin(x, n, k) == DftSum(x, n, k, 0)

\* C4: for every length n >= 1 (power of two or not), every integer bin k and
\* every real signal x of length n, goertzel(x, n, k) returns the DFT bin
\* X[k] = sum_m x[m]*e^{-j*2*pi*k*m/n}, real and imaginary part.
C4_GoertzelIsDftBin ==
    (pc = "goertzel" /\ gz.haveRes) => gz.res = DftBin(gz.x, gz.n, gz.k)

\* a non-power-of-two length, a bin with non-zero sine, a non-zero result
C4_Witness ==
    /\ pc = "goertzel" /\ gz.haveRes
    /\ gz.n = 6 /\ gz.k = 1
    /\ gz.res.im # RZero /\ gz.res.re # RZero

\* C9: for every signal x and integer bin k, goertzel_magnitude_sq(x, n, k)
\* equals re^2 + im^2 of the complex value goertzel(x, n, k) returns.
C9_MagSqConsistent ==
    (pc = "goertzel" /\ gz.haveRes /\ gz.haveMag) =>
        gz.magsq = RAdd(RMul(gz.res.re, gz.res.re), RMul(gz.res.im, gz.res.im))

C9_Witness ==
    /\ pc = "goertzel" /\ gz.haveRes /\ gz.haveMag
    /\ gz.n = 3 /\ gz.k = 1
    /\ gz.magsq # RZero /\ gz.res.im # RZero

(***************************************************************************)
(* Direct causal time-domain convolution, used to state the claims:        *)
(* y[n] = sum_{j=0..M-1} h[j]*x[n-j], x[i] = 0 for i < 0, for the stream   *)
(* x = xs (xs[1] is x[0]).                                                 *)
(***************************************************************************)
RECURSIVE ConvSum(_, _, _, _, _)
ConvSum(x, h, M, n, j) ==
    IF j >= M THEN RZero
    ELSE RAdd(IF n - j >= 0 THEN RMul(h[j], x[n - j + 1]) ELSE RZero,
              ConvSum(x, h, M, n, j + 1))

DirectConv(x, h, M, n) == ConvSum(x, h, M, n, 0)

\* C1: for every filter h of M >= 1 taps and every block size L >= 1, the
\* concatenated output blocks of ola_process equal the direct causal
\* convolution of the concatenated input with h, sample for sample.
C1_OlaMatchesDirect ==
    pc = "ola" =>
        \A n \in 0..(Len(ys) - 1) : ys[n + 1] = DirectConv(xs, hfir, ola.filter_len, n)

\* C2: for every filter h of M taps and every block size L, every output
\* sample of ols_process at stream index i >= L equals the direct causal
\* convolution sum_{j=0..M-1} h[j]*x[i-j] of the input stream with h.
C2_OlsMatchesDirectAfterFirstBlock ==
    pc = "ols" =>
        \A i \in ols.block_size..(Len(ys) - 1) :
            ys[i + 1] = DirectConv(xs, hfir, ols.filter_len, i)

\* three one-sample blocks through a three-tap filter: the third output
\* is made of the first input alone, kept across two calls
C2_Witness ==
    /\ pc = "ols" /\ ols.block_size = 1 /\ ols.filter_len = 3
    /\ xs = <<RInt(1), RInt(0), RInt(0)>>
    /\ Len(ys) = 3 /\ ys[3] # RZero

\* the window of the last N samples fed, oldest first, 0 before the stream
\* began: w[m] for m in 0..N-1
LastWindow(f, N) ==
    [m \in 0..(N - 1) |-> IF Len(f) - N + m >= 0 THEN f[Len(f) - N + m + 1] ELSE RZero]

C5_RoundTrip == (pc = "fft" /\ cx.phase = "back") => cx.buf = cx.orig

C5_Witness ==
    /\ pc = "fft" /\ cx.phase = "back" /\ cx.N = 8
    /\ cx.orig[1] = Cplx(RInt(-1), RInt(2)) /\ cx.orig[2] = CZero
    /\ cx.orig[3] = Cplx(RInt(1), RZero)

\* C10: for every power-of-two length N, the forward transform of the
\* constant signal [1, ..., 1] has bin 0 = N + 0j and 0 at every other bin.
C10_ConstantSignal ==
    (pc = "fft" /\ cx.phase = "fwd"
        /\ cx.orig = [i \in 0..(cx.N - 1) |-> Cplx(RInt(1), RZero)]) =>
            cx.buf = [i \in 0..(cx.N - 1) |->
                        IF i = 0 THEN Cplx(RInt(cx.N), RZero) ELSE CZero]

C10_Witness ==
    /\ pc = "fft" /\ cx.phase = "fwd" /\ cx.N = 8
    /\ cx.orig = [i \in 0..7 |-> Cplx(RInt(1), RZero)]

\* the buffer pointers of the struct the init call was made on
LifePointers ==
    CASE life.called = "ola" -> {ola.H, ola.Xbuf, ola.tail, ola.padded}
      [] life.called = "ols" -> {ols.H, ols.Xbuf, ols.input_buf}
      [] life.called = "sdft" -> {sd.buffer}
      [] OTHER -> {}

\* C6: if ola_init, ols_init or sliding_dft_init fails to allocate one of
\* its buffers (the lengths being valid), it returns -1, every buffer
\* pointer of the struct is NULL on return, and a following release call
\* frees no uninitialised pointer.
C6_FailedInitLeavesNoState ==
    (pc = "life" /\ life.called # "none" /\ life.len1 >= 1 /\ life.len2 >= 1
        /\ life.ret = -1) =>
            /\ \A p \in LifePointers : p.st = "null"
            /\ ~life.badfree

\* C7: a non-positive length is answered with a failure value: ola_init
\* and ols_init fail when filter_len <= 0 or block_size <= 0, and
\* sliding_dft_init fails when N <= 0.
C7_NonPositiveLengthFails ==
    (pc = "life" /\ life.called # "none" /\ (life.len1 <= 0 \/ life.len2 <= 0)) =>
        life.ret # 0

\* C8: a sliding DFT tracking bin k (0 < k < N/2), fed a sinusoid of
\* amplitude A at the bin frequency, has from the N-th sample onward a bin
\* of magnitude A*N/2: |bin|^2 = re^2 + im^2 = (A*N/2)^2.
C8_ToneMagnitude ==
    (pc = "tone" /\ Len(fed) >= sd.N) =>
        /\ RMul(RInt(4), RAdd(RMul(sd.bin.re, sd.bin.re), RMul(sd.bin.im, sd.bin.im)))
             = RInt(tone.A * tone.A * sd.N * sd.N)
        /\ sdret = sd.bin

\* an eight-sample window, bin 3, a phase of 45 degrees, past the first window
C8_Witness ==
    /\ pc = "tone" /\ sd.N = 8 /\ sd.k = 3 /\ tone.phi = 3 /\ tone.A = 2
    /\ Len(fed) = sd.N + 3

\* C11: after every ols_process call, output sample i (0 <= i < L) of the
\* block just returned is the real part of inverse-transform result index
\* M-1+i, an index inside the result (M-1+i < fft_size); no result index
\* below M-1 is returned.
C11_OlsOutputDiscardsArtefacts ==
    (pc = "ols" /\ Len(ys) > 0) =>
        \A i \in 0..(ols.block_size - 1) :
            /\ ols.filter_len - 1 + i < ols.fft_size
            /\ ols.filter_len - 1 + i \in DOMAIN ols.Xbuf.mem
            /\ ys[Len(ys) - ols.block_size + i + 1]
                  = ols.Xbuf.mem[ols.filter_len - 1 + i].re

\* a second block through a three-tap filter: the result holds artefacts at
\* indices 0 and 1 that differ from the samples returned
C11_Witness ==
    /\ pc = "ols" /\ ols.filter_len = 3 /\ ols.block_size = 2
    /\ Len(ys) = 4
    /\ ols.Xbuf.mem[0].re # ols.Xbuf.mem[2].re
    /\ ols.Xbuf.mem[1].re # ols.Xbuf.mem[3].re

\* the last n entries of a stream, as a block on 0..n-1
LastBlock(x, n) == [i \in 0..(n - 1) |-> x[Len(x) - n + i + 1]]

\* C12: no ola_process or ols_process call changes block_size, filter_len,
\* fft_size or any entry of the cached filter transform H of its state, and
\* the caller's input block holds after the call what was fed.
C12_ConfigImmutable ==
    [][/\ (pc = "ola" =>
              /\ ola'.block_size = ola.block_size /\ ola'.filter_len = ola.filter_len
              /\ ola'.fft_size = ola.fft_size /\ ola'.H = ola.H
              /\ blk' = LastBlock(xs', ola.block_size))
       /\ (pc = "ols" =>
              /\ ols'.block_size = ols.block_size /\ ols'.filter_len = ols.filter_len
              /\ ols'.fft_size = ols.fft_size /\ ols'.H = ols.H
              /\ blk' = LastBlock(xs', ols.block_size))]_vars

\* a second block has gone through an overlap-add state whose tail and
\* scratch buffers hold non-zero data
C12_Witness ==
    /\ pc = "ola" /\ ola.block_size = 2 /\ ola.filter_len = 2
    /\ Len(xs) = 4 /\ blk = (0 :> RInt(1) @@ 1 :> RInt(1))
    /\ ola.tail.mem[0] # RZero /\ ola.Xbuf.mem[1].re # RZero

\* the addresses an instance's struct holds
InstAddrs(i) == {inst[i].sp[f] : f \in PtrFields(inst[i].kind)}

\* C13: for two separately initialised instances, under every interleaving
\* of their processing calls, no address is held by both, and each instance
\* has the outputs and the state that its own calls give when run alone.
C13_InstancesIsolated ==
    pc = "pair" =>
        /\ InstAddrs(1) \cap InstAddrs(2) = {}
        /\ \A i \in 1..2 :
              /\ inst[i].outs = inst[i].souts
              /\ View(heap, inst[i].sp, inst[i].kind) = inst[i].solo

\* the same for instances whose calls read no element outside a block
\* (no overlap-add instance with fft_size - block_size < block_size)
IsolatedWithoutOverrun ==
    pc = "pair" =>
        /\ InstAddrs(1) \cap InstAddrs(2) = {}
        /\ \A i \in 1..2 :
              OverrunIdx(inst[i].kind, inst[i].solo) = {} =>
                 /\ inst[i].outs = inst[i].souts
                 /\ View(heap, inst[i].sp, inst[i].kind) = inst[i].solo

\* C14: dtmf_detect returns '?' for a frame that holds no valid digit: a
\* frame with zero power at all four column frequencies or at all four row
\* frequencies (the all-zero frame, a row tone alone, a column tone alone).
C14_NoDigitGivesQuestionMark ==
    (pc = "dtmf" /\ call.done) =>
        LET rp == call.row_power
            cp == call.col_power
        IN  ((\A i \in 0..3 : rp[i] = RZero) \/ (\A i \in 0..3 : cp[i] = RZero))
                => call.res = "?"

\* whether p[b] is strictly the largest entry of p
StrictlyStrongest(p, b) == \A i \in 0..3 : i # b => RLess(p[i], p[b])

DtmfKeySet == {dtmf_keys[r][c] : r \in 1..4, c \in 1..4}

\* C15: the result of dtmf_detect is one of the 16 key characters or '?';
\* when a row r and a column c are strictly the strongest of their group
\* and each has at least twice the mean of the eight powers, the result is
\* the key at row r, column c.
C15_StrongestPairGivesKey ==
    (pc = "dtmf" /\ call.done) =>
        LET rp == call.row_power
            cp == call.col_power
            twice == RMul(DtmfAvgPower(rp, cp), RInt(2))
        IN  /\ call.res \in DtmfKeySet \cup {"?"}
            /\ \A r \in 0..3, c \in 0..3 :
                  (/\ StrictlyStrongest(rp, r) /\ StrictlyStrongest(cp, c)
                   /\ ~RLess(rp[r], twice) /\ ~RLess(cp[c], twice))
                      => call.res = dtmf_keys[r + 1][c + 1]

\* the frame of key '5' (770 Hz and 1336 Hz), detected
C15_Witness ==
    /\ pc = "dtmf" /\ call.done /\ call.res = "5"
    /\ LET rp == call.row_power
           cp == call.col_power
       IN  StrictlyStrongest(rp, 1) /\ StrictlyStrongest(cp, 1)

\* whether p is the smallest power of two that is >= n
IsSmallestPow2(p, n) ==
    /\ \E e \in 0..(IntBits - 2) : p = Pow2(e)
    /\ p >= n
    /\ (p = 1 \/ p \div 2 < n)

\* C16: for every int n > 0, next_power_of_2(n) terminates (p doubling from
\* 1, the loop runs fewer times than an int has bits, every shift within
\* the width of int) and returns the smallest power of two that is >= n.
C16_NextPow2Smallest ==
    (pc = "pow2" /\ call.n > 0) =>
        /\ ~call.ub
        /\ call.it < IntBits
        /\ (call.done => IsSmallestPow2(call.p, call.n))

\* the exact value v clamped to the Q15 range
ClampQ15(v) == IF v > 32767 THEN 32767 ELSE IF v < -32768 THEN -32768 ELSE v

\* C17: for all q15_t a and b, q15_add(a, b) and q15_sub(a, b) equal the
\* exact integer sum and difference clamped to [-32768, 32767].
C17_Q15AddSubSaturate ==
    (pc = "q15" /\ call.done) =>
        /\ call.fn = "q15_add" => call.res = ClampQ15(call.a + call.b)
        /\ call.fn = "q15_sub" => call.res = ClampQ15(call.a - call.b)

\* a sum above the range or a difference below it has been returned, clamped
C17_Witness ==
    /\ pc = "q15" /\ call.done
    /\ \/ call.fn = "q15_add" /\ call.a + call.b > 32767 /\ call.res = 32767
       \/ call.fn = "q15_sub" /\ call.a - call.b < -32768 /\ call.res = -32768

\* C18: in fir_filter_q15 the 32-bit accumulator never overflows for
\* taps < 65536 and all Q15 coefficients and samples.
C18_FirQ15AccNeverOverflows ==
    (pc = "firq15" /\ call.taps < 65536) => ~call.ovf

\* sum over n = i..nx-1 of x[n] * y[n + m], the terms with n + m outside y
\* left out
RECURSIVE LagSum(_, _, _, _, _, _)
LagSum(x, nx, y, ny, m, i) ==
    IF i >= nx THEN RZero
    ELSE LET t == IF i + m >= 0 /\ i + m < ny THEN RMul(x[i], y[i + m]) ELSE RZero
             rest == LagSum(x, nx, y, ny, m, i + 1)
         IN  IF rest = rest THEN RAdd(t, rest) ELSE t

\* the three pointer arguments of the call are live
CorrArgsLive == call.x.st = "live" /\ call.y.st = "live" /\ call.r.st = "live"

C20_NormalizedLagZeroIsOne ==
    (pc = "corr" /\ call.done /\ call.fn = "autocorr_normalized"
        /\ call.nx >= 1 /\ call.ret >= 0) =>
        call.r.mem[call.nx - 1] = QuotOne

\* whenever the raw lag-0 value is not below 1e-30 in magnitude (here: the
\* signal is not all zero), the normalised lag-0 entry is 1.0
NormalizedUnlessSilent ==
    (pc = "corr" /\ call.done /\ call.fn = "autocorr_normalized"
        /\ call.nx >= 1 /\ call.ret >= 0
        /\ \E i \in 0..(call.nx - 1) : call.x.mem[i] # RZero) =>
        call.r.mem[call.nx - 1] = QuotOne

\* C21: xcorr, xcorr_normalized, autocorr and autocorr_normalized return -1
\* and write nothing to r when x, y or r is NULL or a length is <= 0; a
\* non-negative return value is always nx + ny - 1.
C21_CorrRejectsBadArguments ==
    (pc = "corr" /\ call.done) =>
        /\ (~CorrArgsLive \/ call.nx <= 0 \/ call.ny <= 0) =>
              (call.ret = -1 /\ call.r = call.r0)
        /\ call.ret >= 0 => call.ret = call.nx + call.ny - 1

\* xcorr_normalized has rejected a NULL x although both lengths are
\* positive and memory is available
C21_Witness ==
    /\ pc = "corr" /\ call.done /\ call.fn = "xcorr_normalized"
    /\ call.x.st = "null" /\ call.nx = 2 /\ call.ny = 1 /\ call.okx /\ call.oky
    /\ call.ret = -1

\* <<s1, s2>> = <<s[N-1], s[N-2]>> after the N iterations of the recurrence
\* for the call in gz
GzStates ==
    GoertzelLoop(gz.x, gz.n, RMul(RInt(2), CosStep(Omega(gz.k, gz.n))), 0, RZero, RZero)

C23_TailIndicesInBounds ==
    (pc = "ola" /\ Len(xs) > 0) =>
        /\ DOMAIN ola.tail.mem = 0..((ola.fft_size - ola.block_size) - 1)
        /\ OlaTailReads(ola) \subseteq DOMAIN ola.tail.mem
        /\ OlaTailWrites(ola) \subseteq DOMAIN ola.tail.mem

\* what the samples fed so far contribute to stream position n (at or past
\* the end of the stream): sum of h[j]*x[n-j] over the j with x[n-j] fed
RECURSIVE PartialConv(_, _, _, _, _)
PartialConv(x, h, M, n, j) ==
    IF j >= M THEN RZero
    ELSE RAdd(IF n - j >= 0 /\ n - j < Len(x) THEN RMul(h[j], x[n - j + 1]) ELSE RZero,
              PartialConv(x, h, M, n, j + 1))

\* the filter is no longer than one block plus one sample and the tail is
\* at least one block long
OlaFits ==
    /\ ola.filter_len - 1 <= ola.block_size
    /\ ola.fft_size - ola.block_size >= ola.block_size

\* C24: when M - 1 <= L and fft_size - L >= L, the concatenated ola_process
\* outputs equal the direct causal convolution of the stream with h at
\* every sample, and after each call tail[j] is the sum of what the current
\* and earlier blocks contribute to the stream position j samples past the
\* end of the current block.
C24_OlaExactWhenTailFits ==
    (pc = "ola" /\ OlaFits) =>
        /\ \A n \in 0..(Len(ys) - 1) :
              ys[n + 1] = DirectConv(xs, hfir, ola.filter_len, n)
        /\ Len(xs) > 0 =>
              \A j \in 0..((ola.fft_size - ola.block_size) - 1) :
                  ola.tail.mem[j] = PartialConv(xs, hfir, ola.filter_len, Len(xs) + j, 0)

\* two blocks of two samples through a three-tap filter: the tail left by
\* the second block is non-zero and so is the overlap added into its output
C24_Witness ==
    /\ pc = "ola" /\ OlaFits
    /\ ola.block_size = 2 /\ ola.filter_len = 3 /\ Len(xs) = 4
    /\ xs[1] = RInt(1) /\ xs[2] = RInt(1)
    /\ ola.tail.mem[0] # RZero /\ ola.tail.mem[1] # RZero
    /\ ys[3] # RAdd(RMul(hfir[0], xs[3]), RZero)

StreamAt(x, n) == IF n >= 0 THEN x[n + 1] ELSE RZero

\* C26: after every ols_process call, input_buf[0 .. M-2] holds the M-1
\* stream samples just before the block processed (0 where the stream had
\* not started), input_buf[M-1 .. M-2+L] holds that block, and
\* input_buf[M-1+L .. fft_size-1] is all zero; for any number of calls,
\* also when M - 1 > L.
C26_OlsInputBufferLayout ==
    (pc = "ols" /\ Len(xs) > 0) =>
        \A i \in 0..(ols.fft_size - 1) :
            ols.input_buf.mem[i] =
                IF i < ols.filter_len - 1 + ols.block_size
                THEN StreamAt(xs, Len(xs) - ols.block_size - (ols.filter_len - 1) + i)
                ELSE RZero

\* three one-sample blocks through a three-tap filter (M - 1 > L): the
\* history holds the two samples before the last block, both non-zero
C26_Witness ==
    /\ pc = "ols" /\ ols.block_size = 1 /\ ols.filter_len = 3 /\ Len(xs) = 3
    /\ ols.input_buf.mem[0] = RInt(1) /\ ols.input_buf.mem[1] = RInt(1)
    /\ ols.input_buf.mem[2] = RInt(0) /\ ols.input_buf.mem[3] = RZero
    /\ xs = <<RInt(1), RInt(1), RInt(0)>>

\* the time (update number, from 0) of the last of t updates that wrote
\* slot i of an N-slot ring; negative when slot i has not been written
SlotTime(i, t, N) == (t - 1) - (((t - 1) - i) % N)

\* C27: after sliding_dft_init(N, k) and t updates, 0 <= pos < N and
\* pos = t mod N; the circular buffer holds exactly the last min(t, N)
\* samples fed, zeros elsewhere; and buffer[pos], the sample the next
\* update evicts, is the one fed N updates before it (0 while t < N).
C27_RingHoldsLastWindow ==
    pc = "sdft" =>
        /\ sd.pos >= 0 /\ sd.pos < sd.N /\ sd.pos = Len(fed) % sd.N
        /\ \A i \in 0..(sd.N - 1) :
              sd.buffer.mem[i] = StreamAt(fed, SlotTime(i, Len(fed), sd.N))
        /\ sd.buffer.mem[sd.pos] = StreamAt(fed, Len(fed) - sd.N)

\* four updates of a three-sample window: the cursor has wrapped and the
\* first sample has been evicted
C27_Witness ==
    /\ pc = "sdft" /\ sd.N = 3 /\ sd.pos = 1
    /\ fed = <<RInt(1), RInt(-1), RInt(1), RInt(-1)>>
    /\ sd.buffer.mem[0] = RInt(-1) /\ sd.buffer.mem[1] = RInt(-1)
    /\ sd.buffer.mem[2] = RInt(1)

\* the last N samples of the sequence f, oldest first
LastFed(f, N) == [i \in 1..N |-> f[Len(f) - N + i]]

\* both trackers have been fed at least N samples, the same last N
TwinSameWindow ==
    /\ Len(inst[1].fed) >= inst[1].sd.N /\ Len(inst[2].fed) >= inst[2].sd.N
    /\ LastFed(inst[1].fed, inst[1].sd.N) = LastFed(inst[2].fed, inst[2].sd.N)

\* C28: two trackers initialised with the same N and integer k and fed
\* arbitrary, different histories have equal bins once both have been fed
\* the same N consecutive samples: the bin depends only on the last N
\* samples, not on anything fed before them.
C28_BinDependsOnLastWindowOnly ==
    (pc = "twin" /\ TwinSameWindow) => inst[1].sd.bin = inst[2].sd.bin

\* the buffers the initialised struct owns, by field name
LifeOwned ==
    CASE life.called = "ola" -> {"H", "Xbuf", "tail", "padded"}
      [] life.called = "ols" -> {"H", "Xbuf", "input_buf"}
      [] life.called = "sdft" -> {"buffer"}
      [] OTHER -> {}

\* how many times the block of field f has been released
TimesReleased(f) == Cardinality({i \in DOMAIN life.freed : life.freed[i] = f})

\* C29: after a successful init and any number of process calls, one or
\* several ola_free, ols_free or sliding_dft_free calls in a row release
\* each owned buffer exactly once and leave every buffer pointer NULL; no
\* buffer is released twice.
C29_ReleaseIsIdempotent ==
    (pc = "life" /\ life.called # "none" /\ life.ret = 0 /\ ~life.ub
        /\ life.frees >= 1) =>
            /\ \A p \in LifePointers : p.st = "null"
            /\ \A f \in LifeOwned : TimesReleased(f) = 1
            /\ ~life.badfree

\* init, two process calls and three release calls on an overlap-add state
C29_Witness ==
    /\ pc = "life" /\ life.called = "ola" /\ life.ret = 0
    /\ life.len1 = 2 /\ life.len2 = 2
    /\ life.steps = MaxLifeSteps /\ life.frees = MaxLifeFrees
    /\ life.freed = <<"H", "Xbuf", "tail", "padded">>

====
